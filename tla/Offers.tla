------------------------------- MODULE Offers -------------------------------
(***************************************************************************)
(* Commercial offers: the calls of backend/internal/service/offer.go       *)
(* (Create with its Calculate, RequestApproval, Decide) run concurrently,  *)
(* one SQL statement of repository/offer.go per step, against the offers   *)
(* table and against a catalogue (discount policies, apartments, parking   *)
(* and storage units) that staff edit meanwhile.  There is no transaction  *)
(* around a call: what a statement read may be stale when the next runs.   *)
(*                                                                         *)
(* A call is one request of the HTTP or RPC edge; a redelivered or         *)
(* retried request is a second call with an equal record.  A call may be   *)
(* cut short between two statements (client gone, process stopped).        *)
(***************************************************************************)
EXTENDS Integers

CONSTANTS
    Users, Role,             \* Role[u]: "user", "manager" or "supervisor"
    Deals, DealEmployee, DealApartment,
    Apartments, Buildings, Units, UnitBuilding,
    RequestIds, OfferIds, Calls,
    Requests,                \* the requests the calls may carry
    Limits,                  \* limits a policy may set, in basis points
    ApartmentPrices, UnitPrices, \* prices staff may set
    ManagerMax, SupervisorMax,   \* configured limits, in basis points
    MaxInt,                  \* math.MaxInt64
    None

StaffRoles == {"manager", "supervisor"}

BasisPoints == 0..10000

UnitChoice == [parking : Units \cup {None}, storage : Units \cup {None}]

CreateRequest == [op : {"create"}, actor : Users, deal : Deals, key : RequestIds,
                  discount : Int, units : UnitChoice]
SubmitRequest == [op : {"submit"}, actor : Users, offer : OfferIds]
DecideRequest == [op : {"decide"}, actor : Users, offer : OfferIds,
                  approve : BOOLEAN, reason : BOOLEAN]

ASSUME RolesAssumption == Role \in [Users -> StaffRoles \cup {"user"}]

ASSUME DealsAssumption ==
    /\ DealEmployee \in [Deals -> Users]
    /\ DealApartment \in [Deals -> Apartments]

ASSUME UnitsAssumption == UnitBuilding \in [Units -> Buildings]

ASSUME RequestsAssumption ==
    Requests \subseteq CreateRequest \cup SubmitRequest \cup DecideRequest

(* NewOfferService refuses a supervisor limit below the manager limit.     *)
ASSUME LimitsAssumption ==
    /\ Limits \subseteq BasisPoints
    /\ ManagerMax \in BasisPoints /\ SupervisorMax \in BasisPoints
    /\ ManagerMax <= SupervisorMax

(* apartments.price has no CHECK, ancillary_units.price must be >= 0.      *)
ASSUME PricesAssumption ==
    /\ ApartmentPrices \subseteq Int
    /\ UnitPrices \subseteq Nat
    /\ MaxInt \in Nat

VARIABLES
    offers,      \* the offers table: offers[id] is a row or None
    limit,       \* limit[b][r]: max_discount_percent in force, None without a policy
    apartment,   \* apartment[a]: price and building
    unit,        \* unit[u]: kind, price and status of an ancillary unit
    pc, req,     \* per call: next statement, request
    work,        \* per call: Go locals that later statements use
    reply,       \* per call: what the caller was told
    ceiling      \* history: ceiling[a][r], the largest limit ever in force

table == <<offers>>
catalogue == <<limit, apartment, unit, ceiling>>
vars == <<offers, limit, apartment, unit, pc, req, work, reply, ceiling>>

Statuses == {"draft", "pending_approval", "approved", "rejected"}

OfferRow == [request : RequestIds, deal : Deals, version : Nat, creator : Users,
             discount : BasisPoints, base : Nat, final : Int, units : UnitChoice,
             status : Statuses, approvalRequired : BOOLEAN,
             approvedBy : Users \cup {None}, rejectedBy : Users \cup {None}]

ASSUME NoneAssumption ==
    /\ None \notin Users \cup Units \cup OfferIds
    /\ None \notin OfferRow
    /\ None \notin Int

ApartmentRow == [price : ApartmentPrices, building : Buildings]
UnitRow == [kind : {"parking", "storage"}, price : UnitPrices,
            status : {"free", "booked", "sold"}]

Work == [approval : BOOLEAN, building : Buildings \cup {None}, base : Nat, version : Nat]
Blank == [approval |-> FALSE, building |-> None, base |-> 0, version |-> 0]

Results == {"ok", "forbidden", "not_found", "invalid_state", "invalid_discount",
            "invalid_price", "invalid_unit", "error", "lost"}
Replies == [result : Results, offer : OfferIds \cup {None}]
NoReply == [result |-> "lost", offer |-> None]

Steps == {"idle", "price", "parking", "storage", "lookup", "snapshot", "insert",
          "mark", "recheck", "settle", "done"}

Rows == {id \in OfferIds : offers[id] # None}
OffersOf(d) == {id \in Rows : offers[id].deal = d}
WithKey(k) == {id \in Rows : offers[id].request = k}

(* int64 arithmetic wraps around; Go's division truncates towards zero.    *)
Wrap(x) == ((x + MaxInt + 1) % (2 * (MaxInt + 1))) - (MaxInt + 1)
Quotient(x, n) == IF x >= 0 THEN x \div n ELSE -((-x) \div n)

(* roundedRatio with denominator 10000: half rounds up.                    *)
DiscountAmount(base, basisPoints) == Quotient(Wrap(base * basisPoints + 5000), 10000)
FinalPrice(base, basisPoints) == Wrap(base - DiscountAmount(base, basisPoints))

(* maxDiscount: the policy in force, or else the configured limit.         *)
MaxDiscount(lim, b, r) ==
    IF lim[b][r] # None THEN lim[b][r]
    ELSE IF r = "manager" THEN ManagerMax ELSE SupervisorMax

(* RequiresApproval.  The mutant compares whole percents.                  *)
ExceedsWholePercents(x, max) == x \div 100 > max \div 100
Exceeds(x, max) == x > max

(* The mutant forgets whose deal it is.                                    *)
MayOfferAnyDeal(u, d) == Role[u] \in StaffRoles

(* authorizeOfferActor *)
MayOffer(u, d) ==
    \/ Role[u] = "supervisor"
    \/ Role[u] = "manager" /\ DealEmployee[d] = u

Init ==
    /\ offers = [id \in OfferIds |-> None]
    /\ limit \in [Buildings -> [StaffRoles -> Limits \cup {None}]]
    /\ apartment \in [Apartments -> ApartmentRow]
    /\ unit \in [Units -> UnitRow]
    /\ pc = [c \in Calls |-> "idle"]
    /\ req = [c \in Calls |-> None]
    /\ work = [c \in Calls |-> Blank]
    /\ reply = [c \in Calls |-> NoReply]
    /\ ceiling = [a \in Apartments |->
                    [r \in StaffRoles |-> MaxDiscount(limit, apartment[a].building, r)]]
-----------------------------------------------------------------------------
Goto(c, step) == pc' = [pc EXCEPT ![c] = step]

Answer(c, result, id) ==
    /\ Goto(c, "done")
    /\ work' = [work EXCEPT ![c] = Blank]
    /\ reply' = [reply EXCEPT ![c] = [result |-> result, offer |-> id]]

(* A committed write is acknowledged, unless the row cannot be read back:  *)
(* the call then fails although its write stands.                          *)
Acknowledge(c, id) == Answer(c, "ok", id) \/ Answer(c, "lost", None)

Continue(c, step, w) ==
    /\ Goto(c, step)
    /\ work' = [work EXCEPT ![c] = w]
    /\ UNCHANGED reply

(***************************************************************************)
(* Create.  First statements: the percentage is parsed, the actor checked  *)
(* against the deal, and the limit read; the verdict on the limit is kept  *)
(* as a local and never looked at again.                                   *)
(***************************************************************************)
ReadLimit(c, r) ==
    LET max == MaxDiscount(limit, apartment[DealApartment[r.deal]].building,
                           Role[r.actor])
    IN
    /\ pc[c] = "idle" /\ r.op = "create"
    /\ req' = [req EXCEPT ![c] = r]
    /\ \/ /\ r.discount \notin BasisPoints
          /\ Answer(c, "invalid_discount", None)
       \/ /\ r.discount \in BasisPoints /\ ~MayOffer(r.actor, r.deal)
          /\ Answer(c, "forbidden", None)
       \/ /\ r.discount \in BasisPoints /\ MayOffer(r.actor, r.deal)
          /\ Continue(c, "price", [Blank EXCEPT !.approval = Exceeds(r.discount, max)])
    /\ UNCHANGED <<table, catalogue>>

(* The mutant tests the price as the handler of apartments does.           *)
PricedIfSet(row) == row.price # 0
Priced(row) == row.price > 0

ReadPrice(c) ==
    LET a == apartment[DealApartment[req[c].deal]] IN
    /\ pc[c] = "price"
    /\ \/ ~Priced(a) /\ Answer(c, "invalid_price", None)
       \/ /\ Priced(a)
          /\ Continue(c, "parking",
                      [work[c] EXCEPT !.base = a.price, !.building = a.building])
    /\ UNCHANGED <<table, catalogue, req>>

(***************************************************************************)
(* The unit of one kind, if one was selected: it must be of that kind, in  *)
(* the building read with the price, and free.  The prices are added when  *)
(* both units have been read, and a sum beyond MaxInt64 is refused.        *)
(***************************************************************************)
ReadUnit(c, kind, next) ==
    LET u == req[c].units[kind]
        total == work[c].base + (IF u = None THEN 0 ELSE unit[u].price)
        eligible == u # None => /\ UnitBuilding[u] = work[c].building
                                /\ unit[u].kind = kind
                                /\ unit[u].status = "free"
        fits == kind = "storage" => total <= MaxInt
    IN
    /\ pc[c] = kind
    /\ \/ ~eligible /\ Answer(c, "invalid_unit", None)
       \/ eligible /\ ~fits /\ Answer(c, "invalid_price", None)
       \/ eligible /\ fits /\ Continue(c, next, [work[c] EXCEPT !.base = total])
    /\ UNCHANGED <<table, catalogue, req>>

(* An offer with the key answers the call if it is this actor's for this   *)
(* deal with these units; its discount is not compared.                    *)
Lookup(c) ==
    LET same(id) == /\ offers[id].deal = req[c].deal
                    /\ offers[id].creator = req[c].actor
                    /\ offers[id].units = req[c].units
    IN
    /\ pc[c] = "lookup"
    /\ \/ WithKey(req[c].key) = {} /\ Continue(c, "snapshot", work[c])
       \/ \E id \in WithKey(req[c].key) :
             IF same(id) THEN Answer(c, "ok", id) ELSE Answer(c, "forbidden", None)
    /\ UNCHANGED <<table, catalogue, req>>

(* The subquery of the INSERT: one more than the deal's largest version in *)
(* the statement's snapshot.                                               *)
Snapshot(c) ==
    LET d == req[c].deal IN
    /\ pc[c] = "snapshot"
    /\ \E v \in {offers[id].version : id \in OffersOf(d)} \cup {0} :
         /\ \A id \in OffersOf(d) : offers[id].version <= v
         /\ Continue(c, "insert", [work[c] EXCEPT !.version = v + 1])
    /\ UNCHANGED <<table, catalogue, req>>

(* Create's status.                                                        *)
BirthStatus(approval) == IF approval THEN "draft" ELSE "approved"

NewRow(c) ==
    [request |-> req[c].key, deal |-> req[c].deal, version |-> work[c].version,
     creator |-> req[c].actor, discount |-> req[c].discount, base |-> work[c].base,
     final |-> FinalPrice(work[c].base, req[c].discount),
     units |-> req[c].units,
     status |-> BirthStatus(work[c].approval),
     approvalRequired |-> work[c].approval, approvedBy |-> None, rejectedBy |-> None]

VersionTaken(d, v) == \E id \in OffersOf(d) : offers[id].version = v

(* What the two unique indexes find; the mutants drop one index each.      *)
NoKeyConflict(c) == {}
KeyConflict(c) == WithKey(req[c].key)
NoVersionConflict(c) == FALSE
VersionConflict(c) == VersionTaken(req[c].deal, work[c].version)

(* offers_base_price_positive, offers_final_price_nonnegative              *)
Storable(row) == row.base > 0 /\ row.final >= 0

(***************************************************************************)
(* The INSERT takes effect: the CHECKs first, then ON CONFLICT.  A row     *)
(* with the key committed meanwhile makes it do nothing, and that row is   *)
(* the answer, whoever made it; a row with the same deal and version       *)
(* violates offers_deal_version_uidx.                                      *)
(***************************************************************************)
Insert(c) ==
    LET holders == KeyConflict(c)
        taken == VersionConflict(c)
        accepted == Storable(NewRow(c))
    IN
    /\ pc[c] = "insert"
    /\ \/ ~accepted /\ Answer(c, "error", None) /\ UNCHANGED offers
       \/ accepted /\ (\E id \in holders : Answer(c, "ok", id)) /\ UNCHANGED offers
       \/ accepted /\ holders = {} /\ taken /\ Answer(c, "error", None) /\ UNCHANGED offers
       \/ /\ accepted /\ holders = {} /\ ~taken
          /\ \E id \in OfferIds \ Rows :
               /\ offers' = [offers EXCEPT ![id] = NewRow(c)]
               /\ Acknowledge(c, id)
    /\ UNCHANGED <<catalogue, req>>
-----------------------------------------------------------------------------
(***************************************************************************)
(* RequestApproval: read and judge the row, then the conditional UPDATE of *)
(* MarkPendingApproval, then a second read if it matched nothing.          *)
(***************************************************************************)
ReadOffer(c, r) ==
    LET o == offers[r.offer] IN
    /\ pc[c] = "idle" /\ r.op = "submit"
    /\ req' = [req EXCEPT ![c] = r]
    /\ \/ o = None /\ Answer(c, "not_found", None)
       \/ o # None /\ ~MayOffer(r.actor, o.deal) /\ Answer(c, "forbidden", None)
       \/ /\ o # None /\ MayOffer(r.actor, o.deal)
          /\ \/ ~o.approvalRequired /\ Answer(c, "invalid_state", None)
             \/ /\ o.approvalRequired /\ o.status = "pending_approval"
                /\ Answer(c, "ok", r.offer)
             \/ /\ o.approvalRequired /\ o.status \in {"approved", "rejected"}
                /\ Answer(c, "invalid_state", None)
             \/ /\ o.approvalRequired /\ o.status = "draft"
                /\ Continue(c, "mark", Blank)
    /\ UNCHANGED <<table, catalogue>>

(* The mutants drop the status from the WHERE clause.                      *)
SubmittableAgain(row) == row.approvalRequired
Submittable(row) == row.status = "draft" /\ row.approvalRequired

Mark(c) ==
    LET id == req[c].offer IN
    /\ pc[c] = "mark"
    /\ \/ /\ Submittable(offers[id])
          /\ offers' = [offers EXCEPT ![id].status = "pending_approval"]
          /\ Acknowledge(c, id)
       \/ /\ ~Submittable(offers[id])
          /\ Continue(c, "recheck", Blank)
          /\ UNCHANGED offers
    /\ UNCHANGED <<catalogue, req>>

Recheck(c) ==
    LET id == req[c].offer IN
    /\ pc[c] = "recheck"
    /\ \/ offers[id].status = "pending_approval" /\ Answer(c, "ok", id)
       \/ offers[id].status # "pending_approval" /\ Answer(c, "not_found", None)
    /\ UNCHANGED <<table, catalogue, req>>

(***************************************************************************)
(* Decide: a supervisor's verdict, a rejection with its reason, on the     *)
(* row as read, then the conditional UPDATE.                               *)
(***************************************************************************)
DecidableAgain(row) == row.status # "draft" /\ row.approvalRequired
Decidable(row) == row.status = "pending_approval" /\ row.approvalRequired

ReadForDecision(c, r) ==
    LET o == offers[r.offer] IN
    /\ pc[c] = "idle" /\ r.op = "decide"
    /\ req' = [req EXCEPT ![c] = r]
    /\ \/ Role[r.actor] # "supervisor" /\ Answer(c, "forbidden", None)
       \/ /\ Role[r.actor] = "supervisor"
          /\ \/ ~r.approve /\ ~r.reason /\ Answer(c, "invalid_state", None)
             \/ /\ r.approve \/ r.reason
                /\ \/ o = None /\ Answer(c, "not_found", None)
                   \/ o # None /\ ~Decidable(o) /\ Answer(c, "invalid_state", None)
                   \/ o # None /\ Decidable(o) /\ Continue(c, "settle", Blank)
    /\ UNCHANGED <<table, catalogue>>

Decided(row, s, approve) ==
    [row EXCEPT !.status = IF approve THEN "approved" ELSE "rejected",
                !.approvedBy = IF approve THEN s ELSE None,
                !.rejectedBy = IF approve THEN None ELSE s]

Settle(c) ==
    LET id == req[c].offer IN
    /\ pc[c] = "settle"
    /\ \/ /\ Decidable(offers[id])
          /\ offers' = [offers EXCEPT ![id] = Decided(@, req[c].actor, req[c].approve)]
          /\ Acknowledge(c, id)
       \/ /\ ~Decidable(offers[id])
          /\ Answer(c, "invalid_state", None)
          /\ UNCHANGED offers
    /\ UNCHANGED <<catalogue, req>>
-----------------------------------------------------------------------------
(* The call's context is cancelled, or its process stops, before its next  *)
(* statement.                                                              *)
Abandon(c) ==
    /\ pc[c] \notin {"idle", "done"}
    /\ Answer(c, "lost", None)
    /\ UNCHANGED <<table, catalogue, req>>

Raised(lim, ap) ==
    [a \in Apartments |-> [r \in StaffRoles |->
        LET m == MaxDiscount(lim, ap[a].building, r)
        IN  IF m > ceiling[a][r] THEN m ELSE ceiling[a][r]]]

(* A policy comes into force for one building and role: staff publish it,  *)
(* and what GetActiveMax selects changes.                                  *)
PublishPolicy(b, r, m) ==
    /\ limit' = [limit EXCEPT ![b][r] = m]
    /\ ceiling' = Raised(limit', apartment)
    /\ UNCHANGED <<table, apartment, unit, pc, req, work, reply>>

(* UpdateApartment writes every column, its building included.             *)
UpdateApartment(a, row) ==
    /\ apartment' = [apartment EXCEPT ![a] = row]
    /\ ceiling' = Raised(limit, apartment')
    /\ UNCHANGED <<table, limit, unit, pc, req, work, reply>>

(* The unit's Update writes every column but its building.                 *)
UpdateUnit(u, row) ==
    /\ unit' = [unit EXCEPT ![u] = row]
    /\ UNCHANGED <<table, limit, apartment, ceiling, pc, req, work, reply>>

CreateStep(c) ==
    \/ \E r \in Requests : ReadLimit(c, r)
    \/ ReadPrice(c)
    \/ ReadUnit(c, "parking", "storage")
    \/ ReadUnit(c, "storage", "lookup")
    \/ Lookup(c)
    \/ Snapshot(c)
    \/ Insert(c)

VerdictStep(c) ==
    \/ \E r \in Requests : ReadOffer(c, r) \/ ReadForDecision(c, r)
    \/ Mark(c)
    \/ Recheck(c)
    \/ Settle(c)

CatalogueStep ==
    \/ \E b \in Buildings, r \in StaffRoles, m \in Limits : PublishPolicy(b, r, m)
    \/ \E a \in Apartments, row \in ApartmentRow : UpdateApartment(a, row)
    \/ \E u \in Units, row \in UnitRow : UpdateUnit(u, row)

Next ==
    \/ \E c \in Calls : CreateStep(c) \/ VerdictStep(c) \/ Abandon(c)
    \/ CatalogueStep

Spec == Init /\ [][Next]_vars
-----------------------------------------------------------------------------
(* Type invariant: rows, locals and replies have their declared shapes.    *)
TypeOK ==
    /\ offers \in [OfferIds -> OfferRow \cup {None}]
    /\ limit \in [Buildings -> [StaffRoles -> Limits \cup {None}]]
    /\ apartment \in [Apartments -> ApartmentRow]
    /\ unit \in [Units -> UnitRow]
    /\ pc \in [Calls -> Steps]
    /\ req \in [Calls -> Requests \cup {None}]
    /\ work \in [Calls -> Work]
    /\ reply \in [Calls -> Replies]
    /\ ceiling \in [Apartments -> [StaffRoles -> BasisPoints]]

Succeeded(c, op) == pc[c] = "done" /\ req[c].op = op /\ reply[c].result = "ok"

(***************************************************************************)
(* However calls with one idempotency key interleave, be they retries or   *)
(* redeliveries, every one that succeeds is answered with the same offer,  *)
(* and that offer carries the key (service/offer.go Create, the ON         *)
(* CONFLICT of repository/offer.go Create).                                *)
(***************************************************************************)
IdempotentCreate ==
    \A c, d \in Calls :
        /\ Succeeded(c, "create") /\ Succeeded(d, "create")
        /\ req[c].key = req[d].key
        => /\ reply[c].offer = reply[d].offer
           /\ reply[c].offer \in WithKey(req[c].key)

(***************************************************************************)
(* The versions of a deal's offers are 1, 2, 3, ... without a gap or a     *)
(* repetition, although each INSERT computes its version from a snapshot   *)
(* that may be stale by the time the row is written.                       *)
(***************************************************************************)
VersionsAreARun ==
    \A i \in Rows :
        /\ offers[i].version >= 1
        /\ \A v \in 1..offers[i].version : VersionTaken(offers[i].deal, v)
        /\ \A j \in OffersOf(offers[i].deal) :
              offers[j].version = offers[i].version => i = j

(***************************************************************************)
(* Of all the verdicts on one offer, at most one is acknowledged, and the  *)
(* row shows that verdict and that supervisor from then on (Decide's       *)
(* conditional UPDATE).                                                    *)
(***************************************************************************)
OneVerdict ==
    \A c \in Calls : Succeeded(c, "decide") =>
        LET row == offers[req[c].offer] IN
        /\ \A d \in Calls : Succeeded(d, "decide") /\ req[d].offer = req[c].offer => d = c
        /\ IF req[c].approve
           THEN row.status = "approved" /\ row.approvedBy = req[c].actor
           ELSE row.status = "rejected" /\ row.rejectedBy = req[c].actor

(***************************************************************************)
(* An approved offer was sanctioned: its discount is within a limit that   *)
(* was in force for its apartment and its author's role at some time, or a *)
(* supervisor approved it.  Policies change between the statement that     *)
(* reads the limit and the one that stores the row.                        *)
(***************************************************************************)
NoUnsanctionedApproval ==
    \A id \in Rows : offers[id].status = "approved" =>
        \/ offers[id].discount
             <= ceiling[DealApartment[offers[id].deal]][Role[offers[id].creator]]
        \/ /\ offers[id].approvedBy # None
           /\ Role[offers[id].approvedBy] = "supervisor"

(***************************************************************************)
(* The offers table changes only in a step that ends a call, which is told *)
(* so or nothing at all, and whose caller answers for it: a verdict is a   *)
(* supervisor's, any other change is a supervisor's or that of the manager *)
(* of the deal.  Authorization happens statements earlier than the write.  *)
(***************************************************************************)
ChangesAreAuthorised ==
    [][\A id \in OfferIds : offers'[id] # offers[id] =>
        \E c \in Calls :
            LET u == req[c].actor IN
            /\ pc[c] # "done" /\ pc'[c] = "done"
            /\ reply'[c] \in {[result |-> "ok", offer |-> id], NoReply}
            /\ \/ Role[u] = "supervisor"
               \/ /\ Role[u] = "manager" /\ req[c].op # "decide"
                  /\ DealEmployee[offers'[id].deal] = u]_vars

(***************************************************************************)
(* The statements, interleaved, implement the atomic life cycle: fresh     *)
(* key, next version, at most one submission and one verdict, and terms    *)
(* that never change.                                                      *)
(***************************************************************************)
Lifecycle == INSTANCE OfferLifecycle
                 WITH Supervisors <- {u \in Users : Role[u] = "supervisor"}

ImplementsLifecycle == Lifecycle!Spec
=============================================================================
