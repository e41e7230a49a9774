------------------------------- MODULE Deals --------------------------------
(***************************************************************************)
(* Deals on apartments: CreateDeal and UpdateDealStatus of                 *)
(* service/deal.go over the transactions of repository/deal.go.  A deal    *)
(* moves three tables in one transaction, deals, apartments and            *)
(* chat_sessions, but everything that justifies the transaction was read   *)
(* by earlier statements, while chat requests (module Chat), other deal    *)
(* requests and staff edits of the catalogue go on.                        *)
(*                                                                         *)
(* Money is in kopecks.  Percentages are in thousandths, one digit finer   *)
(* than the column percent_discount keeps.                                 *)
(***************************************************************************)
EXTENDS Chat, Integers

CONSTANTS
    DealIds, DealCalls, DealRequests,
    Limits,                      \* limits a policy may set
    ApartmentRows,               \* what staff may write into an apartment
    ManagerMax, SupervisorMax    \* configured limits

Percents == {p \in Nat : p <= 100000}

(* The column DECIMAL(5, 2), rounding half away from zero.                 *)
Stored(percent) == ((percent + 5) \div 10) * 10

DealStatuses == {"pending", "contract", "completed", "cancelled"}

ApartmentRow == [price : Int, status : {"free", "booked", "sold"}]

DealRow == [client : Users, employee : Users, apartment : Apartments,
            session : SessionIds \cup {None}, base : Nat, discount : Percents,
            total : Nat, status : DealStatuses]

(* Deals are created at the staff server; both servers update their status.*)
DealRequest ==
    [op : {"create"}, actor : Staff, client : Users, apartment : Apartments,
     session : SessionIds \cup {None}, discount : Int]
    \cup [op : {"update"}, actor : Users, deal : DealIds,
          status : DealStatuses \cup {"unknown"}, discount : Int \cup {None}]

(* The offer service refuses to start with a limit of more than two        *)
(* decimals, and discount_policies keeps two.                              *)
ASSUME DealAssumption ==
    /\ DealRequests \subseteq DealRequest
    /\ ApartmentRows \subseteq ApartmentRow
    /\ Limits \cup {ManagerMax, SupervisorMax} \subseteq {p \in Percents : p % 10 = 0}
    /\ None \notin Int \cup DealIds

ASSUME DealNoneAssumption == None \notin DealRow \cup DealRequest

VARIABLES
    deals,        \* deals[d]: a row, or None
    apartment,    \* apartment[a]: price and status
    limit,        \* limit[a][r]: the policy in force for the apartment, or None
    deal,         \* deal[c]: where request c stands
    ceiling,      \* history: ceiling[a][r], the largest limit ever in force
    setter,       \* history: setter[d], who set the deal's discount
    edited        \* history: apartments written by UpdateApartment

history == <<ceiling, setter, edited>>
dealVars == <<deals, apartment, limit, deal, ceiling, setter, edited>>
vars == <<chatVars, dealVars>>

DealSteps == {"idle", "client", "sale", "limit", "commit", "announce", "done"}

DealResults == {"ok", "not_found", "forbidden", "invalid", "approval_required",
                "unavailable", "lost"}

DealCall == [at : DealSteps, req : DealRequests \cup {None}, base : Nat,
             deal : DealIds \cup {None}, told : DealResults]

DealRows == {d \in DealIds : deals[d] # None}

(* maxDiscount: the policy, or else the configured limit; a client has no  *)
(* policy and is treated like a manager.                                   *)
MaxDiscount(lim, a, role) ==
    IF role \in StaffRoles /\ lim[a][role] # None THEN lim[a][role]
    ELSE IF role = "supervisor" THEN SupervisorMax ELSE ManagerMax

(* roundPrice(base * (1 - percent / 100))                                  *)
Price(base, percent) == (base * (100000 - percent) + 50000) \div 100000

Init ==
    /\ ChatInit
    /\ deals = [d \in DealIds |-> None]
    /\ apartment \in [Apartments -> ApartmentRows]
    /\ limit \in [Apartments -> [StaffRoles -> Limits \cup {None}]]
    /\ deal = [c \in DealCalls |-> [at |-> "idle", req |-> None, base |-> 0,
                                    deal |-> None, told |-> "lost"]]
    /\ ceiling = [a \in Apartments |-> [r \in StaffRoles \cup {"user"} |->
                                          MaxDiscount(limit, a, r)]]
    /\ setter = [d \in DealIds |-> None]
    /\ edited = {}
-----------------------------------------------------------------------------
Reply(c, result) == deal' = [deal EXCEPT ![c] = [@ EXCEPT !.at = "done", !.told = result]]

RefuseDeal(c, r, result) ==
    deal' = [deal EXCEPT ![c] = [@ EXCEPT !.at = "done", !.req = r, !.told = result]]

Begin(c, r, step, id, base) ==
    deal' = [deal EXCEPT ![c] = [at |-> step, req |-> r, base |-> base, deal |-> id,
                                 told |-> "lost"]]

Asks(c, r, op) == deal[c].at = "idle" /\ r.op = op

(* The limit check.  The mutant compares whole percents.                   *)
WithinWhole(percent, max) == percent \div 1000 <= max \div 1000
Within(percent, max) == percent <= max

ReadDealLimit(c, r) ==
    LET max == MaxDiscount(limit, r.apartment, Role[r.actor]) IN
    /\ Asks(c, r, "create")
    /\ \/ ~Within(r.discount, max) /\ RefuseDeal(c, r, "approval_required")
       \/ /\ Within(r.discount, max)
          /\ \/ r.discount < 0 /\ RefuseDeal(c, r, "invalid")
             \/ r.discount >= 0 /\ Begin(c, r, "client", None, 0)
    /\ UNCHANGED <<chatVars, deals, apartment, limit, history>>

(* CanCreateDealForUser: a client who exists; a manager must have been     *)
(* assigned a session of this client, the given one if one is given.  The  *)
(* mutant checks only the session that is given.                           *)
MayDealWithAnyone(u, client, s) ==
    /\ Role[client] = "user"
    /\ s # None => s \in Sessions /\ session[s].user = client
                      /\ (Role[u] = "supervisor" \/ session[s].employee = u)

MayDealWith(u, client, s) ==
    LET serves(t) == session[t].user = client
                        /\ (Role[u] = "supervisor" \/ session[t].employee = u)
    IN
    /\ Role[client] = "user"
    /\ s # None => s \in Sessions /\ serves(s)
    /\ Role[u] = "supervisor" \/ \E t \in Sessions : s \in {None, t} /\ serves(t)

CheckClient(c) ==
    LET r == deal[c].req
        allowed == MayDealWith(r.actor, r.client, r.session)
    IN
    /\ deal[c].at = "client"
    /\ \/ ~allowed /\ Reply(c, "forbidden")
       \/ allowed /\ deal' = [deal EXCEPT ![c].at = "sale"]
    /\ UNCHANGED <<chatVars, deals, apartment, limit, history>>

ReadSaleData(c) ==
    LET row == apartment[deal[c].req.apartment]
        forSale == row.price > 0 /\ row.status = "free"
    IN
    /\ deal[c].at = "sale"
    /\ \/ ~forSale /\ Reply(c, "unavailable")
       \/ forSale /\ deal' = [deal EXCEPT ![c] = [@ EXCEPT !.at = "commit", !.base = row.price]]
    /\ UNCHANGED <<chatVars, deals, apartment, limit, history>>

(***************************************************************************)
(* Both transactions set the apartment and the deal's session by the new   *)
(* status of the deal, whatever their status was.                          *)
(***************************************************************************)
(* The mutant does not release the apartment of a cancelled deal.          *)
HousingUnreleased(status) == IF status = "completed" THEN "sold" ELSE "booked"
Housing(status) ==
    CASE status = "completed" -> "sold"
      [] status = "cancelled" -> "free"
      [] OTHER -> "booked"

ChatFor(status) ==
    CASE status = "completed" -> "close"
      [] status = "contract" -> "contract"
      [] status = "cancelled" -> "in_progress"
      [] status = "pending" -> "pending_approval"

MovesWith(row) ==
    /\ apartment' = [apartment EXCEPT ![row.apartment].status = Housing(row.status)]
    /\ session' = IF row.session = None THEN session
                  ELSE [session EXCEPT ![row.session].status = ChatFor(row.status)]
    /\ UNCHANGED <<message, rejections, chat>>

(* The transaction is acknowledged, or its outcome is lost; an             *)
(* acknowledged one with a session is announced there.                     *)
Committed(c, id, s) ==
    \E result \in {"ok", "lost"} :
        deal' = [deal EXCEPT ![c] =
                   [@ EXCEPT !.at = IF s # None /\ result = "ok" THEN "announce" ELSE "done",
                             !.deal = id,
                             !.told = IF s # None THEN "lost" ELSE result]]

CommitDeal(c) ==
    LET r == deal[c].req
        row == [client |-> r.client, employee |-> r.actor, apartment |-> r.apartment,
                session |-> r.session, base |-> deal[c].base,
                discount |-> Stored(r.discount),
                total |-> Price(deal[c].base, r.discount), status |-> "pending"]
    IN
    /\ deal[c].at = "commit" /\ r.op = "create"
    /\ \E id \in DealIds \ DealRows :
         /\ deals' = [deals EXCEPT ![id] = row]
         /\ setter' = [setter EXCEPT ![id] = r.actor]
         /\ MovesWith(row)
         /\ Committed(c, id, r.session)
    /\ UNCHANGED <<limit, ceiling, edited>>
-----------------------------------------------------------------------------
(* UpdateDealStatus: the row and the permissions.                          *)
MayUpdate(u, row) ==
    \/ Role[u] = "supervisor"
    \/ Role[u] = "manager" /\ row.employee = u
    \/ Role[u] = "user" /\ row.client = u

MayAsk(u, status) == Role[u] = "user" => status \in {"contract", "cancelled"}

ReadDeal(c, r) ==
    LET row == deals[r.deal]
        valid == MayAsk(r.actor, r.status) /\ r.status \in DealStatuses
        next == IF r.discount = None THEN "commit" ELSE "limit"
    IN
    /\ Asks(c, r, "update")
    /\ \/ row = None /\ RefuseDeal(c, r, "not_found")
       \/ row # None /\ ~MayUpdate(r.actor, row) /\ RefuseDeal(c, r, "forbidden")
       \/ row # None /\ MayUpdate(r.actor, row) /\ ~valid /\ RefuseDeal(c, r, "invalid")
       \/ row # None /\ MayUpdate(r.actor, row) /\ valid /\ Begin(c, r, next, r.deal, row.base)
    /\ UNCHANGED <<chatVars, deals, apartment, limit, history>>

ReadUpdateLimit(c) ==
    LET r == deal[c].req
        max == MaxDiscount(limit, deals[r.deal].apartment, Role[r.actor])
    IN
    /\ deal[c].at = "limit"
    /\ \/ ~Within(r.discount, max) /\ Reply(c, "approval_required")
       \/ Within(r.discount, max) /\ r.discount < 0 /\ Reply(c, "invalid")
       \/ /\ Within(r.discount, max) /\ r.discount >= 0
          /\ deal' = [deal EXCEPT ![c].at = "commit"]
    /\ UNCHANGED <<chatVars, deals, apartment, limit, history>>

(* The base of a new total.  The mutant takes the price of the day.        *)
PriceOfTheDay(c) == apartment[deals[deal[c].req.deal].apartment].price
BasePrice(c) == deal[c].base

CommitStatus(c) ==
    LET r == deal[c].req
        old == deals[r.deal]
        row == IF r.discount = None THEN [old EXCEPT !.status = r.status]
               ELSE [old EXCEPT !.status = r.status,
                                !.discount = Stored(r.discount),
                                !.total = Price(BasePrice(c), r.discount)]
    IN
    /\ deal[c].at = "commit" /\ r.op = "update"
    /\ deals' = [deals EXCEPT ![r.deal] = row]
    /\ setter' = [setter EXCEPT ![r.deal] = IF r.discount = None THEN @ ELSE r.actor]
    /\ MovesWith(row)
    /\ Committed(c, r.deal, row.session)
    /\ UNCHANGED <<limit, ceiling, edited>>

(* The system message; an error is ignored.                                *)
Announce(c) ==
    /\ deal[c].at = "announce"
    /\ \/ SendsMessage(deals[deal[c].deal].session, None, "system")
       \/ Faults /\ UNCHANGED message
    /\ Reply(c, "ok")
    /\ UNCHANGED <<session, rejections, chat, deals, apartment, limit, history>>

DealAbandon(c) ==
    /\ deal[c].at \notin {"idle", "done"}
    /\ Reply(c, "lost")
    /\ UNCHANGED <<chatVars, deals, apartment, limit, history>>
-----------------------------------------------------------------------------
Raised(lim) ==
    [a \in Apartments |-> [r \in StaffRoles \cup {"user"} |->
        LET m == MaxDiscount(lim, a, r)
        IN  IF m > ceiling[a][r] THEN m ELSE ceiling[a][r]]]

(* A policy comes into force for an apartment and a role.                  *)
PublishPolicy(a, r, m) ==
    /\ limit' = [limit EXCEPT ![a][r] = m]
    /\ ceiling' = Raised(limit')
    /\ UNCHANGED <<chatVars, deals, apartment, deal, setter, edited>>

(* UpdateApartment writes every column: price, status, and the building,   *)
(* which brings other policies with it.                                    *)
UpdateApartment(a, row, policies) ==
    /\ apartment' = [apartment EXCEPT ![a] = row]
    /\ limit' = [limit EXCEPT ![a] = policies]
    /\ ceiling' = Raised(limit')
    /\ edited' = edited \cup {a}
    /\ UNCHANGED <<chatVars, deals, deal, setter>>

DealStep(c) ==
    \/ \E r \in DealRequests : ReadDealLimit(c, r) \/ ReadDeal(c, r)
    \/ CheckClient(c) \/ ReadSaleData(c) \/ CommitDeal(c)
    \/ ReadUpdateLimit(c) \/ CommitStatus(c)
    \/ Announce(c) \/ DealAbandon(c)

CatalogueStep ==
    \E a \in Apartments :
        \/ \E r \in StaffRoles, m \in Limits : PublishPolicy(a, r, m)
        \/ \E row \in ApartmentRows, policies \in [StaffRoles -> Limits \cup {None}] :
              UpdateApartment(a, row, policies)

Next ==
    \/ ChatNext /\ UNCHANGED dealVars
    \/ \E c \in DealCalls : DealStep(c)
    \/ CatalogueStep

Spec == Init /\ [][Next]_vars
-----------------------------------------------------------------------------
(* Type invariant: tables, requests in flight and history.                 *)
TypeOK ==
    /\ ChatTypeOK
    /\ deals \in [DealIds -> DealRow \cup {None}]
    /\ apartment \in [Apartments -> ApartmentRow]
    /\ limit \in [Apartments -> [StaffRoles -> Limits \cup {None}]]
    /\ deal \in [DealCalls -> DealCall]
    /\ ceiling \in [Apartments -> [StaffRoles \cup {"user"} -> Percents]]
    /\ setter \in [DealIds -> Users \cup {None}]
    /\ edited \subseteq Apartments

(***************************************************************************)
(* A manager's deal is with a client the manager serves, in the session    *)
(* given if one was, not only when CanCreateDealForUser looked but ever    *)
(* after: no chat request takes a session away from its manager.           *)
(***************************************************************************)
DealsOnlyForOwnClients ==
    \A d \in DealRows : Role[deals[d].employee] = "manager" =>
        \E s \in Sessions :
            /\ session[s].user = deals[d].client
            /\ session[s].employee = deals[d].employee
            /\ deals[d].session \in {None, s}

(***************************************************************************)
(* Whoever set a deal's discount set one within a limit that was in force  *)
(* for the apartment and that person's role at some time, although the     *)
(* limit was read statements before the discount was stored, and the       *)
(* column rounds it.                                                       *)
(***************************************************************************)
DiscountWithinALimit ==
    \A d \in DealRows : deals[d].discount <= ceiling[deals[d].apartment][Role[setter[d]]]

(***************************************************************************)
(* Base, discount and total of a deal stay consistent through concurrent   *)
(* updates, repricing of the apartment and the column's rounding: the      *)
(* total is the price at a discount that the column stores as this one.    *)
(***************************************************************************)
TotalFollowsDiscount ==
    \A d \in DealRows :
        \E p \in (deals[d].discount - 5)..(deals[d].discount + 5) :
            /\ Stored(p) = deals[d].discount
            /\ deals[d].total = Price(deals[d].base, p)

(***************************************************************************)
(* An apartment that no one edited and that had one deal follows it: it is *)
(* booked while the deal is pending or a contract, sold when completed,    *)
(* free again when cancelled.                                              *)
(***************************************************************************)
ApartmentFollowsItsOnlyDeal ==
    \A d \in DealRows :
        /\ deals[d].apartment \notin edited
        /\ \A e \in DealRows : deals[e].apartment = deals[d].apartment => e = d
        => <<deals[d].status, apartment[deals[d].apartment].status>> \in
              {<<"pending", "booked">>, <<"contract", "booked">>,
               <<"completed", "sold">>, <<"cancelled", "free">>}

(***************************************************************************)
(* service/deal_test.go expects CreateDeal to refuse an apartment that is  *)
(* not free: two deals never hold an apartment no one edited.              *)
(***************************************************************************)
NoDoubleBooking ==
    \A d, e \in DealRows :
        /\ deals[d].apartment = deals[e].apartment
        /\ deals[d].apartment \notin edited
        /\ deals[d].status # "cancelled" /\ deals[e].status # "cancelled"
        => d = e
=============================================================================
