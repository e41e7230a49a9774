------------------------------ MODULE Notices -------------------------------
(***************************************************************************)
(* The catalogue of buildings and the notices of construction delays: the  *)
(* creates and updates of handler/construction.go, and what a write of a   *)
(* construction stage sets off in service/notification.go.  The write, the *)
(* claim of the stage's new state, the reading of the building's deals and *)
(* each notice are statements of their own; requests on one stage          *)
(* interleave between them, and deals and apartments change meanwhile.     *)
(*                                                                         *)
(* No route deletes a complex, building, apartment or stage, so rows only  *)
(* appear and change.  A request that misses a required field, or whose    *)
(* row or parent does not exist, changes nothing and is no step here.      *)
(***************************************************************************)
EXTENDS Integers, Sequences, FiniteSets

CONSTANTS
    Complexes, Buildings, Apartments, Stages, Deals, Clients,
    Calls,         \* writes of stages
    Reports,       \* what staff may report of a stage
    Trimmed,       \* Trimmed[r]: the reason r without surrounding space
    MaxMoves,      \* bound: edits of buildings, apartments and deals
    None

Statuses == {"not_started", "in_progress", "completed", "delayed"}
DealStatuses == {"pending", "contract", "completed", "cancelled"}

Report == [status : Statuses, risk : {None, "low", "medium", "high"},
           days : Nat \cup {None}, reason : DOMAIN Trimmed]

ASSUME ReportsAssumption == Reports \subseteq Report

DealRow == [client : Clients, apartment : Apartments, status : DealStatuses]

ASSUME NoneAssumption ==
    /\ None \notin Complexes \cup Buildings \cup Apartments \cup Nat
    /\ None \notin {"claim", "deals", "tell"}
    /\ None \notin DealRow \cup [building : Buildings, report : Report]

VARIABLES
    complexes,   \* complexes that exist
    building,    \* building[b]: its complex, or None
    apartment,   \* apartment[a]: its building, or None
    stage,       \* stage[s]: building and report of a construction stage, or None
    deals,       \* deals[d]: a row, or None
    claimed,     \* claimed[s]: the fingerprint last claimed, or None
    notices,     \* the notices in the clients' accounts
    call,        \* call[c]: where a write of a stage stands
    moves,       \* edits made so far
    claims,      \* history: claims[s], the fingerprints claimed, in order
    overlapped   \* history: stages written while another write of them was under way

tables == <<complexes, building, apartment, deals>>
vars == <<complexes, building, apartment, stage, deals, claimed, notices, call, moves,
          claims, overlapped>>

(* at: the next statement; left: deals still to tell; told: deals told.    *)
(* History: steady, the deals active ever since the claim; cut, where a    *)
(* statement failed or the process stopped.                                *)
Idle == [at |-> "idle", stage |-> None, building |-> None, report |-> None,
         left |-> {}, told |-> {}, steady |-> {}, cut |-> None]

(* A call that has ended keeps only its history.                           *)
Finished(k) == [Idle EXCEPT !.at = "done", !.stage = k.stage, !.told = k.told,
                            !.steady = k.steady, !.cut = k.cut]

InFlight == {c \in Calls : call[c].at \notin {"idle", "done"}}

Built == {b \in Buildings : building[b] # None}

(* The deals in a building that are neither completed nor cancelled.       *)
Active(rows, aps, b) ==
    {d \in Deals : /\ rows[d] # None
                   /\ rows[d].status \notin {"completed", "cancelled"}
                   /\ aps[rows[d].apartment] = b}

(* GetDealsByBuildingID.  The mutant leaves out deals under contract.      *)
ListedPending(rows, aps, b) ==
    {d \in Deals : rows[d] # None /\ rows[d].status = "pending"
                                  /\ aps[rows[d].apartment] = b}
Listed(rows, aps, b) ==
    {d \in Deals : rows[d] # None /\ rows[d].status \in {"pending", "contract"}
                                  /\ aps[rows[d].apartment] = b}

IsDelay(r) == r.status = "delayed" \/ (r.days # None /\ r.days > 0)
IsRisk(r) == r.risk \in {"medium", "high"}
Alarming(r) == IsDelay(r) \/ IsRisk(r)

(* Null and zero days look alike, and so do null and no risk.              *)
Days(r) == IF r.days = None THEN 0 ELSE r.days
Fingerprint(r) == <<r.status, r.risk, Days(r), Trimmed[r.reason]>>

(* A notice of a delay tells the days, a notice of a risk its level.       *)
Text(r) == IF IsDelay(r) THEN <<"delay", Days(r), Trimmed[r.reason]>>
           ELSE <<"risk", r.risk, Trimmed[r.reason]>>

Init ==
    /\ complexes = {}
    /\ building = [b \in Buildings |-> None]
    /\ apartment = [a \in Apartments |-> None]
    /\ stage = [s \in Stages |-> None]
    /\ deals = [d \in Deals |-> None]
    /\ claimed = [s \in Stages |-> None]
    /\ notices = {}
    /\ call = [c \in Calls |-> Idle]
    /\ moves = 0
    /\ claims = [s \in Stages |-> <<>>]
    /\ overlapped = {}
-----------------------------------------------------------------------------
(***************************************************************************)
(* The catalogue: the creates of every kind and the updates that move a    *)
(* row.  A parent must exist (the foreign keys).                           *)
(***************************************************************************)
(* A deal stays steady for the calls that are past their claim.            *)
Watch(rows, aps) ==
    call' = [c \in Calls |->
                IF c \in InFlight
                THEN [call[c] EXCEPT !.steady = @ \cap Active(rows, aps, call[c].building)]
                ELSE call[c]]

Moves == moves < MaxMoves /\ moves' = moves + 1
notified == <<stage, claimed, notices, claims, overlapped>>

CreateComplex(k) ==
    /\ k \notin complexes
    /\ complexes' = complexes \cup {k}
    /\ UNCHANGED <<building, apartment, deals, call, moves, notified>>

CreateBuilding(b, k) ==
    /\ building[b] = None /\ k \in complexes
    /\ building' = [building EXCEPT ![b] = k]
    /\ UNCHANGED <<complexes, apartment, deals, call, moves, notified>>

UpdateBuilding(b, k) ==
    /\ b \in Built /\ k \in complexes
    /\ Moves
    /\ building' = [building EXCEPT ![b] = k]
    /\ UNCHANGED <<complexes, apartment, deals, call, notified>>

CreateApartment(a, b) ==
    /\ apartment[a] = None /\ b \in Built
    /\ apartment' = [apartment EXCEPT ![a] = b]
    /\ UNCHANGED <<complexes, building, deals, call, moves, notified>>

UpdateApartment(a, b) ==
    /\ apartment[a] # None /\ b \in Built
    /\ Moves
    /\ apartment' = [apartment EXCEPT ![a] = b]
    /\ Watch(deals, apartment')
    /\ UNCHANGED <<complexes, building, deals, notified>>

CreateDeal(d, u, a) ==
    /\ deals[d] = None /\ apartment[a] # None
    /\ deals' = [deals EXCEPT ![d] = [client |-> u, apartment |-> a, status |-> "pending"]]
    /\ UNCHANGED <<complexes, building, apartment, call, moves, notified>>

UpdateDealStatus(d, status) ==
    /\ deals[d] # None
    /\ Moves
    /\ deals' = [deals EXCEPT ![d].status = status]
    /\ Watch(deals', apartment)
    /\ UNCHANGED <<complexes, building, apartment, notified>>
-----------------------------------------------------------------------------
(***************************************************************************)
(* CreateProgress and UpdateProgress: the row is written, and only then    *)
(* its state is claimed.                                                   *)
(***************************************************************************)
Writers(s) == {c \in InFlight : call[c].stage = s}

Write(c, s, b, r) ==
    /\ stage' = [stage EXCEPT ![s] = [building |-> b, report |-> r]]
    /\ call' = [call EXCEPT ![c] = [Idle EXCEPT !.at = "claim", !.stage = s,
                                                !.building = b, !.report = r]]
    /\ overlapped' = IF Writers(s) = {} THEN overlapped ELSE overlapped \cup {s}
    /\ UNCHANGED <<tables, claimed, notices, moves, claims>>

CreateProgress(c, s, b, r) ==
    /\ call[c].at = "idle" /\ stage[s] = None /\ b \in Built
    /\ Write(c, s, b, r)

UpdateProgress(c, s, b, r) ==
    /\ call[c].at = "idle" /\ stage[s] # None /\ b \in Built
    /\ Write(c, s, b, r)

(***************************************************************************)
(* ClaimConstructionState: an upsert that touches the row only when the    *)
(* fingerprint differs.  Whoever changes it is to tell, if there is        *)
(* something to tell.  The mutants: every claim succeeds; the first claim  *)
(* of a stage stays.                                                       *)
(***************************************************************************)
AlwaysChanges(old, new) == TRUE
OnlyTheFirst(old, new) == old = None
Changes(old, new) == old # new

ClaimConstructionState(c) ==
    LET s == call[c].stage
        r == call[c].report
        changed == Changes(claimed[s], Fingerprint(r))
        b == call[c].building
    IN
    /\ call[c].at = "claim"
    /\ \/ /\ ~changed
          /\ call' = [call EXCEPT ![c] = Finished(@)]
          /\ UNCHANGED <<claimed, claims>>
       \/ /\ changed
          /\ claimed' = [claimed EXCEPT ![s] = Fingerprint(r)]
          /\ claims' = [claims EXCEPT ![s] = Append(@, r)]
          /\ call' = [call EXCEPT
                ![c] = IF Alarming(r)
                       THEN [@ EXCEPT !.at = "deals",
                                      !.steady = Active(deals, apartment, b)]
                       ELSE Finished(@)]
    /\ UNCHANGED <<tables, stage, notices, moves, overlapped>>

Telling(k) == IF k.left = {} THEN Finished(k) ELSE [k EXCEPT !.at = "tell"]

ReadDeals(c) ==
    LET ds == Listed(deals, apartment, call[c].building) IN
    /\ call[c].at = "deals"
    /\ call' = [call EXCEPT ![c] = Telling([@ EXCEPT !.left = ds])]
    /\ UNCHANGED <<tables, stage, claimed, notices, moves, claims, overlapped>>

(* The notice of one deal, to the deal's client, and the mail that follows *)
(* it.  A notice that cannot be stored is skipped; the list's order is     *)
(* left open.  No write tells a deal twice: the two stand for the row's id.*)
Notice(c, d) ==
    [write |-> c, client |-> deals[d].client, deal |-> d, stage |-> call[c].stage,
     text |-> Text(call[c].report), read |-> FALSE]

Tell(c, d) ==
    LET k == [call[c] EXCEPT !.left = @ \ {d}] IN
    /\ call[c].at = "tell" /\ d \in call[c].left
    /\ \/ /\ notices' = notices \cup {Notice(c, d)}
          /\ call' = [call EXCEPT ![c] = Telling([k EXCEPT !.told = @ \cup {d}])]
       \/ /\ call' = [call EXCEPT ![c] = Telling([k EXCEPT !.cut = "tell"])]
          /\ UNCHANGED notices
    /\ UNCHANGED <<tables, stage, claimed, moves, claims, overlapped>>

(* The claim or the list of deals fails, or the process stops: the error   *)
(* is ignored, the claim stands.                                           *)
CutShort(c) ==
    /\ c \in InFlight
    /\ call' = [call EXCEPT ![c] = Finished([@ EXCEPT !.cut = call[c].at])]
    /\ UNCHANGED <<tables, stage, claimed, notices, moves, claims, overlapped>>

MarkAsRead(u, n) ==
    /\ n.client = u
    /\ notices' = (notices \ {n}) \cup {[n EXCEPT !.read = TRUE]}
    /\ UNCHANGED <<tables, stage, claimed, call, moves, claims, overlapped>>

MarkAllAsRead(u) ==
    /\ notices' = {[n EXCEPT !.read = @ \/ n.client = u] : n \in notices}
    /\ UNCHANGED <<tables, stage, claimed, call, moves, claims, overlapped>>

CatalogueStep ==
    \/ \E k \in Complexes : CreateComplex(k)
    \/ \E b \in Buildings, k \in Complexes : CreateBuilding(b, k) \/ UpdateBuilding(b, k)
    \/ \E a \in Apartments, b \in Buildings : CreateApartment(a, b) \/ UpdateApartment(a, b)
    \/ \E d \in Deals, u \in Clients, a \in Apartments : CreateDeal(d, u, a)
    \/ \E d \in Deals, status \in DealStatuses : UpdateDealStatus(d, status)

StageStep(c) ==
    \/ \E s \in Stages, b \in Buildings, r \in Reports :
          CreateProgress(c, s, b, r) \/ UpdateProgress(c, s, b, r)
    \/ ClaimConstructionState(c)
    \/ ReadDeals(c)
    \/ \E d \in Deals : Tell(c, d)
    \/ CutShort(c)

ReadingStep(u) == MarkAllAsRead(u) \/ \E n \in notices : MarkAsRead(u, n)

Next ==
    \/ CatalogueStep
    \/ \E c \in Calls : StageStep(c)
    \/ \E u \in Clients : ReadingStep(u)

Spec == Init /\ [][Next]_vars
-----------------------------------------------------------------------------
(* How often the stage's state turned into one that reads like text.       *)
Turns(s, text) ==
    Cardinality({i \in DOMAIN claims[s] :
        /\ Text(claims[s][i]) = text
        /\ i > 1 => Fingerprint(claims[s][i]) # Fingerprint(claims[s][i - 1])})

Received(s, d, text) ==
    Cardinality({n \in notices : n.stage = s /\ n.deal = d /\ n.text = text})

(***************************************************************************)
(* However many requests report the same state of a stage, in parallel or  *)
(* again and again, a deal is told of it once: a second notice with that   *)
(* text takes a claim of another state in between.                         *)
(***************************************************************************)
ToldOncePerTurn ==
    \A s \in Stages, d \in Deals :
        \A n \in notices :
            Received(s, d, n.text) <= Turns(s, n.text)

(***************************************************************************)
(* A write whose statements all succeed and that changed an alarming state *)
(* tells every deal that was active in the building from the claim to the  *)
(* end, however deals and apartments change between the two.               *)
(***************************************************************************)
SteadyDealsAreTold ==
    \A c \in Calls :
        call[c].at = "done" /\ call[c].cut = None => call[c].steady \subseteq call[c].told

(***************************************************************************)
(* If no two writes of a stage ever overlapped, and none was cut short     *)
(* before its claim, then between writes the claimed fingerprint is that   *)
(* of the stored report: the next change will be seen as one.              *)
(***************************************************************************)
ClaimFollowsStage ==
    \A s \in Stages :
        /\ stage[s] # None /\ s \notin overlapped /\ Writers(s) = {}
        /\ \A c \in Calls : call[c].stage = s => call[c].cut # "claim"
        => claimed[s] = Fingerprint(stage[s].report)
=============================================================================
