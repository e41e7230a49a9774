---------------------------- MODULE DealsProofs -----------------------------
(***************************************************************************)
(* Proofs about Deals, for every set of users, apartments, deals and       *)
(* requests, and for the chat that goes on meanwhile.                      *)
(*                                                                         *)
(* Everything that justifies a transaction was read by an earlier          *)
(* statement.  It is still good at the COMMIT because what was read only   *)
(* evolves: sessions keep client and employee (module ChatProofs), deals   *)
(* keep everything but status, discount and total, and the ceiling, which  *)
(* is history, never sinks.                                                *)
(***************************************************************************)
EXTENDS Deals, ChatProofs

Roles == StaffRoles \cup {"user"}

(* A manager has been assigned a session of the client, the given one if   *)
(* one is given; and a given session exists.                               *)
Served(u, client, s) ==
    /\ s # None => session[s] # None
    /\ Role[u] = "manager" =>
          \E t \in SessionIds : /\ session[t] # None
                                /\ session[t].user = client /\ session[t].employee = u
                                /\ s \in {None, t}

(* A discount within a limit that was in force for the person.             *)
Sanctioned(percent, a, u) == 0 <= percent /\ percent <= ceiling[a][Role[u]]

(* The total is the price at a discount that is stored as this one.        *)
Follows(row) ==
    \E p \in (row.discount - 5)..(row.discount + 5) :
        Stored(p) = row.discount /\ row.total = Price(row.base, p)

(* What a request that stands at a given statement has established.        *)
Establishes(k) ==
    LET r == k.req IN
    /\ k.at # "idle" => r \in DealRequests
    /\ k.at \in {"client", "sale"} => r.op = "create"
    /\ k.at = "limit" => r.op = "update" /\ r.discount # None
    /\ k.at \in {"client", "sale", "commit"} /\ r.op = "create" =>
          Sanctioned(r.discount, r.apartment, r.actor)
    /\ k.at \in {"sale", "commit"} /\ r.op = "create" =>
          Served(r.actor, r.client, r.session)
    /\ k.at \in {"limit", "commit"} /\ r.op = "update" =>
          /\ deals[r.deal] # None /\ r.status \in DealStatuses
          /\ k.base = deals[r.deal].base
    /\ k.at = "commit" /\ r.op = "update" /\ r.discount # None =>
          Sanctioned(r.discount, deals[r.deal].apartment, r.actor)
    /\ k.at = "announce" =>
          k.deal \in DealIds /\ deals[k.deal] # None /\ deals[k.deal].session # None

Justified(row, u) ==
    /\ u \in Users
    /\ row.discount <= ceiling[row.apartment][Role[u]]
    /\ Served(row.employee, row.client, row.session)
    /\ Follows(row)

(* The ceiling covers every limit in force, and is one the column can keep.*)
CeilingCovers ==
    \A a \in Apartments, r \in Roles :
        MaxDiscount(limit, a, r) <= ceiling[a][r] /\ ceiling[a][r] % 10 = 0

DealsInv ==
    /\ ChatInv /\ TypeOK
    /\ \A c \in DealCalls : Establishes(deal[c])
    /\ \A d \in DealIds : deals[d] # None => Justified(deals[d], setter[d])
    /\ CeilingCovers

(* What a step may do to the deals and to the ceiling.                     *)
DealsEvolve ==
    \A d \in DealIds : deals[d] # None =>
        /\ deals'[d] # None
        /\ deals'[d].client = deals[d].client /\ deals'[d].employee = deals[d].employee
        /\ deals'[d].apartment = deals[d].apartment
        /\ deals'[d].session = deals[d].session /\ deals'[d].base = deals[d].base

CeilingRises == \A a \in Apartments, r \in Roles : ceiling[a][r] <= ceiling'[a][r]

Evolution == SessionsEvolve /\ DealsEvolve /\ CeilingRises
-----------------------------------------------------------------------------
LEMMA NoneIsNoDeal ==
    /\ None \notin DealRow /\ None \notin DealRequests /\ None \notin Int
    /\ None \notin DealIds /\ None \notin Users /\ None \notin SessionIds
BY DealAssumption, DealNoneAssumption, ChatAssumption

LEMMA DealRequestKinds ==
    ASSUME NEW r \in DealRequests
    PROVE  /\ r.op \in {"create", "update"}
           /\ r.actor \in Users
           /\ r.op = "create" =>
                 /\ r.actor \in Staff /\ r.client \in Users /\ r.apartment \in Apartments
                 /\ r.session \in SessionIds \cup {None} /\ r.discount \in Int
           /\ r.op = "update" =>
                 /\ r.deal \in DealIds /\ r.status \in DealStatuses \cup {"unknown"}
                 /\ r.discount \in Int \cup {None}
BY DealAssumption DEF DealRequest, Staff

LEMMA RoleOf ==
    /\ \A u \in Users : Role[u] \in Roles
    /\ \A u \in Staff : u \in Users /\ Role[u] \in StaffRoles
BY ChatAssumption DEF Roles, Staff

(* The column's rounding stays below a limit, for limits are in hundredths.*)
LEMMA Rounding ==
    ASSUME NEW p \in Nat, NEW max \in Percents, p <= max, max % 10 = 0
    PROVE  /\ p \in Percents /\ Stored(p) \in Percents
           /\ Stored(p) <= max
           /\ p \in (Stored(p) - 5)..(Stored(p) + 5)
<1>1. PICK q \in Int : max = 10 * q
  BY DEF Percents
<1>2. Stored(p) \in Nat /\ Stored(p) <= p + 5 /\ p <= Stored(p) + 4
  BY DEF Stored
<1>3. \E n \in Nat : Stored(p) = 10 * n
  BY DEF Stored
<1>4. Stored(p) <= max
  BY <1>1, <1>2, <1>3
<1>5. p \in Percents /\ Stored(p) \in Percents
  BY <1>2, <1>4 DEF Percents
<1>6. p \in (Stored(p) - 5)..(Stored(p) + 5)
  <2> DEFINE n == Stored(p)
  <2>1. n \in Nat /\ n <= p + 5 /\ p <= n + 4
    BY <1>2
  <2> HIDE DEF n
  <2>2. p \in (n - 5)..(n + 5)
    BY <2>1
  <2> QED
    BY <2>2 DEF n
<1> QED
  BY <1>4, <1>5, <1>6

LEMMA PriceTyped ==
    ASSUME NEW base \in Nat, NEW p \in Percents
    PROVE  Price(base, p) \in Nat
<1> DEFINE n == base * (100000 - p)
<1>1. 100000 - p \in Nat
  BY DEF Percents
<1>2. n \in Nat
  BY <1>1
<1> HIDE DEF n
<1>3. (n + 50000) \div 100000 \in Nat
  BY <1>2
<1> QED
  BY <1>3 DEF Price, n

LEMMA LimitsTyped ==
    ASSUME NEW lim \in [Apartments -> [StaffRoles -> Limits \cup {None}]],
           NEW a \in Apartments, NEW r \in Roles
    PROVE  MaxDiscount(lim, a, r) \in Percents /\ MaxDiscount(lim, a, r) % 10 = 0
<1>1. \A p \in Limits \cup {ManagerMax, SupervisorMax} : p \in Percents /\ p % 10 = 0
  BY DealAssumption
<1>2. r \in StaffRoles => lim[a][r] \in Limits \cup {None}
  OBVIOUS
<1> QED
  BY <1>1, <1>2 DEF MaxDiscount

(* What has been established outlives every step.                          *)
LEMMA ServedKept ==
    ASSUME NEW u \in Users, NEW client \in Users, NEW s \in SessionIds \cup {None},
           Served(u, client, s), SessionsEvolve
    PROVE  Served(u, client, s)'
<1>1. s # None => session'[s] # None
  BY DEF Served, SessionsEvolve, Evolves
<1>2. ASSUME Role[u] = "manager"
      PROVE  \E t \in SessionIds : /\ session'[t] # None
                                   /\ session'[t].user = client /\ session'[t].employee = u
                                   /\ s \in {None, t}
  <2>1. PICK t \in SessionIds : /\ session[t] # None
                                /\ session[t].user = client /\ session[t].employee = u
                                /\ s \in {None, t}
    BY <1>2 DEF Served
  <2>2. Evolves(t)
    BY DEF SessionsEvolve
  <2> QED
    BY <2>1, <2>2, NoneIsNoDeal DEF Evolves
<1> QED
  BY <1>1, <1>2 DEF Served

LEMMA SanctionedKept ==
    ASSUME NEW p \in Int, NEW a \in Apartments, NEW u \in Users, TypeOK, TypeOK',
           Sanctioned(p, a, u), CeilingRises
    PROVE  Sanctioned(p, a, u)'
<1>1. Role[u] \in Roles /\ ceiling[a][Role[u]] <= ceiling'[a][Role[u]]
  BY RoleOf DEF CeilingRises
<1>2. ceiling[a][Role[u]] \in Percents /\ ceiling'[a][Role[u]] \in Percents
  BY <1>1 DEF TypeOK, Roles
<1>3. ceiling[a][Role[u]] \in Int /\ ceiling'[a][Role[u]] \in Int
  BY <1>2 DEF Percents
<1> QED
  BY <1>1, <1>3 DEF Sanctioned

LEMMA EstablishedStays ==
    ASSUME NEW k \in DealCall, TypeOK, TypeOK', Establishes(k), Evolution
    PROVE  Establishes(k)'
<1> DEFINE r == k.req
<1>1. CASE k.at = "idle"
  BY <1>1 DEF Establishes
<1>2. CASE k.at # "idle" /\ r.op = "create"
  <2>1. r \in DealRequests
    BY <1>2 DEF Establishes
  <2>2. /\ r.actor \in Users /\ r.client \in Users /\ r.apartment \in Apartments
        /\ r.session \in SessionIds \cup {None} /\ r.discount \in Int
    BY <1>2, <2>1, DealRequestKinds
  <2>3. Sanctioned(r.discount, r.apartment, r.actor)
          => Sanctioned(r.discount, r.apartment, r.actor)'
    BY <2>2, SanctionedKept DEF Evolution
  <2>4. Served(r.actor, r.client, r.session) => Served(r.actor, r.client, r.session)'
    BY <2>2, ServedKept DEF Evolution
  <2>5. k.at = "announce" =>
          k.deal \in DealIds /\ deals'[k.deal] # None /\ deals'[k.deal].session # None
    BY DEF Establishes, Evolution, DealsEvolve
  <2> QED
    BY <1>2, <2>1, <2>3, <2>4, <2>5 DEF Establishes
<1>3. CASE k.at # "idle" /\ r.op # "create"
  <2>1. r \in DealRequests
    BY <1>3 DEF Establishes
  <2>2. /\ r.actor \in Users /\ r.deal \in DealIds /\ r.op = "update"
        /\ r.discount \in Int \cup {None}
    BY <1>3, <2>1, DealRequestKinds
  <2>3. deals[r.deal] # None =>
          /\ deals'[r.deal] # None /\ deals'[r.deal].base = deals[r.deal].base
          /\ deals'[r.deal].apartment = deals[r.deal].apartment
          /\ deals[r.deal].apartment \in Apartments
    BY <2>2 DEF Evolution, DealsEvolve, TypeOK, DealRow
  <2>4. ASSUME NEW a \in Apartments, r.discount # None, Sanctioned(r.discount, a, r.actor)
        PROVE  Sanctioned(r.discount, a, r.actor)'
    BY <2>2, <2>4, SanctionedKept DEF Evolution
  <2>5. k.at = "announce" =>
          k.deal \in DealIds /\ deals'[k.deal] # None /\ deals'[k.deal].session # None
    BY DEF Establishes, Evolution, DealsEvolve
  <2>6. ASSUME k.at = "commit", r.discount # None
        PROVE  Sanctioned(r.discount, deals[r.deal].apartment, r.actor)'
    <3>1. PICK a \in Apartments :
            /\ a = deals[r.deal].apartment /\ a = deals'[r.deal].apartment
            /\ Sanctioned(r.discount, a, r.actor)
      BY <2>2, <2>3, <2>6 DEF Establishes
    <3>2. Sanctioned(r.discount, a, r.actor)'
      BY <2>4, <2>6, <3>1
    <3> QED
      BY <3>1, <3>2 DEF Sanctioned
  <2> QED
    BY <2>1, <2>2, <2>3, <2>5, <2>6 DEF Establishes
<1> QED
  BY <1>1, <1>2, <1>3

LEMMA RowTyped ==
    ASSUME NEW row \in DealRow
    PROVE  /\ row.client \in Users /\ row.employee \in Users
           /\ row.apartment \in Apartments /\ row.session \in SessionIds \cup {None}
           /\ row.base \in Nat /\ row.discount \in Percents /\ row.total \in Nat
           /\ row.status \in DealStatuses
BY DEF DealRow

LEMMA JustifiedStays ==
    ASSUME NEW row \in DealRow, NEW u \in Users, TypeOK, TypeOK', Justified(row, u),
           Evolution
    PROVE  Justified(row, u)'
<1>1. /\ row.employee \in Users /\ row.client \in Users /\ row.apartment \in Apartments
      /\ row.session \in SessionIds \cup {None} /\ row.discount \in Nat
  BY RowTyped DEF Percents
<1>2. Served(row.employee, row.client, row.session)'
  BY <1>1, ServedKept DEF Justified, Evolution
<1>3. Sanctioned(row.discount, row.apartment, u)'
  BY <1>1, SanctionedKept DEF Justified, Evolution, Sanctioned
<1> QED
  BY <1>2, <1>3 DEF Justified, Sanctioned, Follows
-----------------------------------------------------------------------------
LEMMA DealsInitInv == Init => DealsInv
<1> SUFFICES ASSUME Init PROVE DealsInv
  OBVIOUS
<1>1. ChatInv
  BY InitInv DEF Init
<1>2. ASSUME NEW a \in Apartments, NEW r \in Roles
      PROVE  /\ ceiling[a][r] = MaxDiscount(limit, a, r)
             /\ ceiling[a][r] \in Percents /\ ceiling[a][r] % 10 = 0
  <2>1. limit \in [Apartments -> [StaffRoles -> Limits \cup {None}]]
    BY DEF Init
  <2>2. ceiling[a][r] = MaxDiscount(limit, a, r)
    BY DEF Init, Roles
  <2> QED
    BY <2>1, <2>2, LimitsTyped
<1>3. ceiling \in [Apartments -> [StaffRoles \cup {"user"} -> Percents]]
  <2>1. \A a \in Apartments : ceiling[a] \in [Roles -> Percents]
    <3>1. \A a \in Apartments : ceiling[a] = [r \in Roles |-> MaxDiscount(limit, a, r)]
      BY DEF Init, Roles
    <3> QED
      BY <1>2, <3>1
  <2>2. ceiling = [a \in Apartments |-> ceiling[a]]
    BY DEF Init
  <2> QED
    BY <2>1, <2>2 DEF Roles
<1>4. apartment \in [Apartments -> ApartmentRow]
  BY DealAssumption DEF Init
<1>5. deal \in [DealCalls -> DealCall]
  BY DEF Init, DealCall, DealSteps, DealResults
<1>6. TypeOK
  BY <1>1, <1>3, <1>4, <1>5 DEF Init, TypeOK, ChatInv
<1>7. CeilingCovers
  <2>1. ASSUME NEW a \in Apartments, NEW r \in Roles
        PROVE  MaxDiscount(limit, a, r) <= ceiling[a][r] /\ ceiling[a][r] % 10 = 0
    <3>1. PICK m \in Percents : m = ceiling[a][r] /\ m = MaxDiscount(limit, a, r) /\ m % 10 = 0
      BY <1>2
    <3>2. m <= m
      BY DEF Percents
    <3> QED
      BY <3>1, <3>2
  <2> QED
    BY <2>1 DEF CeilingCovers
<1>8. \A c \in DealCalls : Establishes(deal[c])
  BY DEF Init, Establishes
<1>9. \A d \in DealIds : deals[d] = None
  BY DEF Init
<1> QED
  BY <1>1, <1>6, <1>7, <1>8, <1>9 DEF DealsInv

(***************************************************************************)
(* A step keeps the invariant if it only lets things evolve, and if the    *)
(* requests and the deals that it writes are sound.                        *)
(***************************************************************************)
LEMMA EvolvedInv ==
    ASSUME DealsInv, ChatInv', TypeOK', CeilingCovers', Evolution,
           \A c \in DealCalls : deal'[c] = deal[c] \/ Establishes(deal[c])',
           \A d \in DealIds : deals'[d] # None =>
               \/ deals'[d] = deals[d] /\ setter'[d] = setter[d]
               \/ Justified(deals[d], setter[d])'
    PROVE  DealsInv'
<1>1. ASSUME NEW c \in DealCalls, deal'[c] = deal[c] PROVE Establishes(deal[c])'
  <2>1. PICK k \in DealCall : k = deal[c] /\ k = deal'[c] /\ Establishes(k)
    BY <1>1 DEF DealsInv, TypeOK
  <2>2. Establishes(k)'
    BY <2>1, EstablishedStays DEF DealsInv
  <2> QED
    BY <2>1, <2>2 DEF Establishes, Served, Sanctioned
<1>2. ASSUME NEW d \in DealIds, deals'[d] # None,
             deals'[d] = deals[d], setter'[d] = setter[d]
      PROVE  Justified(deals[d], setter[d])'
  <2>1. deals[d] \in DealRow /\ Justified(deals[d], setter[d])
    BY <1>2 DEF DealsInv, TypeOK
  <2>2. setter[d] \in Users
    BY <2>1 DEF Justified
  <2>3. PICK row \in DealRow, u \in Users : /\ row = deals[d] /\ row = deals'[d]
                                            /\ u = setter[d] /\ u = setter'[d]
    BY <1>2, <2>1, <2>2
  <2>4. Justified(row, u)
    BY <2>1, <2>3
  <2>5. Justified(row, u)'
    BY <2>4, JustifiedStays DEF DealsInv
  <2> QED
    BY <2>3, <2>5 DEF Justified, Served, Follows
<1> QED
  BY <1>1, <1>2 DEF DealsInv

(* A statement that reads, or a reply.                                     *)
LEMMA ProceedsInv ==
    ASSUME DealsInv, NEW c \in DealCalls, NEW k \in DealCall, Establishes(k),
           deal' = [deal EXCEPT ![c] = k],
           UNCHANGED <<chatVars, deals, apartment, limit, history>>
    PROVE  DealsInv'
<1>1. ChatInv'
  BY StepInv DEF DealsInv
<1>2. Evolution
  <2>1. SessionsEvolve
    BY Unmoved DEF chatVars
  <2>2. DealsEvolve
    BY DEF DealsEvolve
  <2>3. CeilingRises
    <3>1. \A a \in Apartments, r \in Roles : ceiling[a][r] \in Percents
      BY DEF DealsInv, TypeOK, Roles
    <3> QED
      BY <3>1 DEF CeilingRises, Percents, history
  <2> QED
    BY <2>1, <2>2, <2>3 DEF Evolution
<1>3. deal' \in [DealCalls -> DealCall]
  BY DEF DealsInv, TypeOK
<1>4. TypeOK'
  BY <1>1, <1>3 DEF DealsInv, ChatInv, TypeOK, history
<1>5. CeilingCovers'
  BY DEF DealsInv, CeilingCovers, history
<1>6. ASSUME NEW e \in DealCalls PROVE deal'[e] = deal[e] \/ Establishes(deal[e])'
  <2>1. CASE e # c
    BY <2>1 DEF DealsInv, TypeOK
  <2>2. CASE e = c
    <3>1. deal'[e] = k
      BY <2>2 DEF DealsInv, TypeOK
    <3> QED
      BY <3>1 DEF Establishes, Served, Sanctioned, chatVars, history
  <2> QED
    BY <2>1, <2>2
<1>7. \A d \in DealIds : deals'[d] = deals[d] /\ setter'[d] = setter[d]
  BY DEF history
<1> QED
  BY <1>1, <1>2, <1>4, <1>5, <1>6, <1>7, EvolvedInv

(* The statements of a request.                                            *)
LEMMA MovedOn ==
    ASSUME NEW k \in DealCall, NEW step \in DealSteps
    PROVE  /\ [k EXCEPT !.at = step] \in DealCall
           /\ [k EXCEPT !.at = step].at = step /\ [k EXCEPT !.at = step].req = k.req
           /\ [k EXCEPT !.at = step].base = k.base
BY DEF DealCall

LEMMA Priced ==
    ASSUME NEW k \in DealCall, NEW base \in Nat
    PROVE  /\ [k EXCEPT !.at = "commit", !.base = base] \in DealCall
           /\ [k EXCEPT !.at = "commit", !.base = base].at = "commit"
           /\ [k EXCEPT !.at = "commit", !.base = base].req = k.req
           /\ [k EXCEPT !.at = "commit", !.base = base].base = base
BY DEF DealCall, DealSteps

LEMMA Replied ==
    ASSUME NEW k \in DealCall, NEW result \in DealResults
    PROVE  /\ [k EXCEPT !.at = "done", !.told = result] \in DealCall
           /\ [k EXCEPT !.at = "done", !.told = result].at = "done"
           /\ [k EXCEPT !.at = "done", !.told = result].req = k.req
BY DEF DealCall, DealSteps

LEMMA StepsKnown ==
    /\ "client" \in DealSteps /\ "sale" \in DealSteps /\ "limit" \in DealSteps
    /\ "commit" \in DealSteps /\ "announce" \in DealSteps /\ "done" \in DealSteps
    /\ "ok" \in DealResults /\ "lost" \in DealResults /\ "not_found" \in DealResults
    /\ "forbidden" \in DealResults /\ "invalid" \in DealResults
    /\ "approval_required" \in DealResults /\ "unavailable" \in DealResults
BY DEF DealSteps, DealResults

LEMMA ReplyInv ==
    ASSUME DealsInv, NEW c \in DealCalls, NEW result \in DealResults, Reply(c, result),
           deal[c].at # "idle",
           UNCHANGED <<chatVars, deals, apartment, limit, history>>
    PROVE  DealsInv'
<1>1. deal[c] \in DealCall /\ deal[c].req \in DealRequests
  BY DEF DealsInv, TypeOK, Establishes
<1>2. PICK k \in DealCall : /\ deal' = [deal EXCEPT ![c] = k]
                            /\ k.at = "done" /\ k.req = deal[c].req
  <2> DEFINE n == [deal[c] EXCEPT !.at = "done", !.told = result]
  <2>1. n \in DealCall /\ n.at = "done" /\ n.req = deal[c].req
    BY <1>1, Replied
  <2>2. deal' = [deal EXCEPT ![c] = n]
    BY DEF Reply
  <2> QED
    BY <2>1, <2>2
<1>3. Establishes(k)
  BY <1>1, <1>2 DEF Establishes
<1> QED
  BY <1>2, <1>3, ProceedsInv

LEMMA RefuseDealInv ==
    ASSUME DealsInv, NEW c \in DealCalls, NEW r \in DealRequests, NEW result \in DealResults,
           RefuseDeal(c, r, result),
           UNCHANGED <<chatVars, deals, apartment, limit, history>>
    PROVE  DealsInv'
<1>1. deal[c] \in DealCall
  BY DEF DealsInv, TypeOK
<1>2. PICK k \in DealCall : /\ deal' = [deal EXCEPT ![c] = k]
                            /\ k.at = "done" /\ k.req = r
  <2> DEFINE n == [deal[c] EXCEPT !.at = "done", !.req = r, !.told = result]
  <2>1. n \in DealCall /\ n.at = "done" /\ n.req = r
    <3>1. \A k \in DealCall :
             LET m == [k EXCEPT !.at = "done", !.req = r, !.told = result]
             IN  m \in DealCall /\ m.at = "done" /\ m.req = r
      BY DEF DealCall, DealSteps
    <3> QED
      BY <1>1, <3>1
  <2>2. deal' = [deal EXCEPT ![c] = n]
    BY DEF RefuseDeal
  <2> QED
    BY <2>1, <2>2
<1>3. Establishes(k)
  BY <1>2 DEF Establishes
<1> QED
  BY <1>2, <1>3, ProceedsInv

LEMMA BeginTyped ==
    ASSUME NEW c \in DealCalls, NEW r \in DealRequests, NEW step \in DealSteps,
           NEW id \in DealIds \cup {None}, NEW base \in Nat, Begin(c, r, step, id, base)
    PROVE  \E k \in DealCall : /\ deal' = [deal EXCEPT ![c] = k]
                               /\ k.at = step /\ k.req = r /\ k.base = base /\ k.deal = id
<1> DEFINE k == [at |-> step, req |-> r, base |-> base, deal |-> id, told |-> "lost"]
<1>1. k \in DealCall
  BY DEF DealCall, DealResults
<1>2. deal' = [deal EXCEPT ![c] = k]
  BY DEF Begin
<1> QED
  BY <1>1, <1>2

(* A discount within the limit in force is sanctioned.                     *)
LEMMA WithinSanctioned ==
    ASSUME DealsInv, NEW p \in Int, NEW a \in Apartments, NEW u \in Users, 0 <= p,
           Within(p, MaxDiscount(limit, a, Role[u]))
    PROVE  Sanctioned(p, a, u)
<1>1. PICK r \in Roles : r = Role[u]
  BY RoleOf
<1>2. /\ MaxDiscount(limit, a, r) \in Percents /\ ceiling[a][r] \in Percents
      /\ MaxDiscount(limit, a, r) <= ceiling[a][r]
  BY LimitsTyped DEF DealsInv, TypeOK, CeilingCovers, Roles
<1>3. p <= MaxDiscount(limit, a, r)
  BY <1>1 DEF Within
<1> HIDE DEF MaxDiscount
<1>4. p <= ceiling[a][r]
  BY <1>2, <1>3 DEF Percents
<1> QED
  BY <1>1, <1>4 DEF Sanctioned

LEMMA ReadDealLimitInv ==
    ASSUME DealsInv, NEW c \in DealCalls, NEW r \in DealRequests, ReadDealLimit(c, r)
    PROVE  DealsInv'
<1>1. /\ r.op = "create" /\ r.actor \in Users /\ r.apartment \in Apartments
      /\ r.discount \in Int
      /\ UNCHANGED <<chatVars, deals, apartment, limit, history>>
  BY DealRequestKinds DEF ReadDealLimit, Asks
<1>2. CASE RefuseDeal(c, r, "approval_required") \/ RefuseDeal(c, r, "invalid")
  BY <1>1, <1>2, RefuseDealInv, StepsKnown
<1>3. CASE /\ Within(r.discount, MaxDiscount(limit, r.apartment, Role[r.actor]))
           /\ r.discount >= 0 /\ Begin(c, r, "client", None, 0)
  <2>1. PICK k \in DealCall : deal' = [deal EXCEPT ![c] = k] /\ k.at = "client" /\ k.req = r
    BY <1>3, BeginTyped, StepsKnown
  <2>2. Sanctioned(r.discount, r.apartment, r.actor)
    BY <1>1, <1>3, WithinSanctioned
  <2>3. Establishes(k)
    BY <1>1, <2>1, <2>2 DEF Establishes
  <2> QED
    BY <1>1, <2>1, <2>3, ProceedsInv
<1> QED
  BY <1>2, <1>3 DEF ReadDealLimit

LEMMA CheckClientInv ==
    ASSUME DealsInv, NEW c \in DealCalls, CheckClient(c)
    PROVE  DealsInv'
<1> DEFINE r == deal[c].req
<1>1. /\ deal[c].at = "client" /\ deal[c] \in DealCall
      /\ Establishes(deal[c])
      /\ UNCHANGED <<chatVars, deals, apartment, limit, history>>
  BY DEF CheckClient, DealsInv, TypeOK
<1>2. /\ r \in DealRequests /\ r.op = "create"
      /\ Sanctioned(r.discount, r.apartment, r.actor)
  BY <1>1 DEF Establishes
<1>3. CASE Reply(c, "forbidden")
  BY <1>1, <1>3, ReplyInv, StepsKnown
<1>4. CASE /\ MayDealWith(r.actor, r.client, r.session)
           /\ deal' = [deal EXCEPT ![c].at = "sale"]
  <2>1. PICK k \in DealCall : deal' = [deal EXCEPT ![c] = k] /\ k.at = "sale" /\ k.req = r
    <3> DEFINE n == [deal[c] EXCEPT !.at = "sale"]
    <3>1. n \in DealCall /\ n.at = "sale" /\ n.req = r
      BY <1>1, MovedOn, StepsKnown
    <3>2. deal' = [deal EXCEPT ![c] = n]
      BY <1>4
    <3> QED
      BY <3>1, <3>2
  <2>2. Served(r.actor, r.client, r.session)
    <3>1. r.session # None => session[r.session] # None
      BY <1>4 DEF MayDealWith, Sessions
    <3>2. ASSUME Role[r.actor] = "manager"
          PROVE  \E t \in SessionIds : /\ session[t] # None
                                       /\ session[t].user = r.client
                                       /\ session[t].employee = r.actor
                                       /\ r.session \in {None, t}
      BY <1>4, <3>2 DEF MayDealWith, Sessions
    <3> QED
      BY <3>1, <3>2 DEF Served
  <2>3. Establishes(k)
    BY <1>2, <2>1, <2>2 DEF Establishes
  <2> QED
    BY <1>1, <2>1, <2>3, ProceedsInv
<1> QED
  BY <1>3, <1>4 DEF CheckClient

LEMMA ReadSaleDataInv ==
    ASSUME DealsInv, NEW c \in DealCalls, ReadSaleData(c)
    PROVE  DealsInv'
<1> DEFINE r == deal[c].req
           row == apartment[r.apartment]
<1>1. /\ deal[c].at = "sale" /\ deal[c] \in DealCall
      /\ Establishes(deal[c])
      /\ UNCHANGED <<chatVars, deals, apartment, limit, history>>
  BY DEF ReadSaleData, DealsInv, TypeOK
<1>2. /\ r \in DealRequests /\ r.op = "create"
      /\ Sanctioned(r.discount, r.apartment, r.actor)
      /\ Served(r.actor, r.client, r.session)
  BY <1>1 DEF Establishes
<1>3. CASE Reply(c, "unavailable")
  BY <1>1, <1>3, ReplyInv, StepsKnown
<1>4. CASE row.price > 0 /\ deal' = [deal EXCEPT ![c].at = "commit", ![c].base = row.price]
  <2>1. row \in ApartmentRow
    BY <1>2, DealRequestKinds DEF DealsInv, TypeOK
  <2>2. row.price \in Nat
    BY <1>4, <2>1 DEF ApartmentRow
  <2>3. PICK k \in DealCall : deal' = [deal EXCEPT ![c] = k] /\ k.at = "commit" /\ k.req = r
    <3> DEFINE n == [deal[c] EXCEPT !.at = "commit", !.base = row.price]
    <3>1. n \in DealCall /\ n.at = "commit" /\ n.req = r
      BY <1>1, <2>2, Priced
    <3>2. deal' = [deal EXCEPT ![c] = n]
      BY <1>4
    <3> QED
      BY <3>1, <3>2
  <2>4. Establishes(k)
    BY <1>2, <2>3 DEF Establishes
  <2> QED
    BY <1>1, <2>3, <2>4, ProceedsInv
<1> QED
  BY <1>3, <1>4 DEF ReadSaleData

LEMMA ReadDealInv ==
    ASSUME DealsInv, NEW c \in DealCalls, NEW r \in DealRequests, ReadDeal(c, r)
    PROVE  DealsInv'
<1> DEFINE row == deals[r.deal]
<1>1. /\ r.op = "update" /\ r.deal \in DealIds
      /\ r.status \in DealStatuses \cup {"unknown"}
      /\ UNCHANGED <<chatVars, deals, apartment, limit, history>>
  BY DealRequestKinds DEF ReadDeal, Asks
<1>2. CASE \/ RefuseDeal(c, r, "not_found") \/ RefuseDeal(c, r, "forbidden")
           \/ RefuseDeal(c, r, "invalid")
  BY <1>1, <1>2, RefuseDealInv, StepsKnown
<1>3. CASE /\ row # None /\ r.status \in DealStatuses
           /\ Begin(c, r, IF r.discount = None THEN "commit" ELSE "limit", r.deal, row.base)
  <2>1. row \in DealRow
    BY <1>1, <1>3 DEF DealsInv, TypeOK
  <2>2. PICK step \in {"commit", "limit"} :
          /\ step = (IF r.discount = None THEN "commit" ELSE "limit")
          /\ Begin(c, r, step, r.deal, row.base)
    BY <1>3
  <2>3. row.base \in Nat /\ step \in DealSteps
    BY <2>1, RowTyped, StepsKnown
  <2>4. PICK k \in DealCall : /\ deal' = [deal EXCEPT ![c] = k]
                              /\ k.at = step /\ k.req = r /\ k.base = row.base
    BY <1>1, <2>2, <2>3, BeginTyped
  <2>5. Establishes(k)
    BY <1>1, <1>3, <2>2, <2>4 DEF Establishes
  <2> QED
    BY <1>1, <2>4, <2>5, ProceedsInv
<1> QED
  BY <1>2, <1>3 DEF ReadDeal

LEMMA ReadUpdateLimitInv ==
    ASSUME DealsInv, NEW c \in DealCalls, ReadUpdateLimit(c)
    PROVE  DealsInv'
<1> DEFINE r == deal[c].req
           a == deals[r.deal].apartment
<1>1. /\ deal[c].at = "limit" /\ deal[c] \in DealCall /\ Establishes(deal[c])
      /\ UNCHANGED <<chatVars, deals, apartment, limit, history>>
  BY DEF ReadUpdateLimit, DealsInv, TypeOK
<1>2. /\ r \in DealRequests /\ r.op = "update" /\ r.discount # None
      /\ deals[r.deal] # None /\ r.status \in DealStatuses
      /\ deal[c].base = deals[r.deal].base
  BY <1>1 DEF Establishes
<1>3. /\ r.deal \in DealIds /\ r.discount \in Int /\ r.actor \in Users
      /\ deals[r.deal] \in DealRow
  BY <1>2, DealRequestKinds DEF DealsInv, TypeOK
<1>4. CASE Reply(c, "approval_required") \/ Reply(c, "invalid")
  BY <1>1, <1>4, ReplyInv, StepsKnown
<1>5. CASE /\ Within(r.discount, MaxDiscount(limit, a, Role[r.actor]))
           /\ r.discount >= 0 /\ deal' = [deal EXCEPT ![c].at = "commit"]
  <2>1. PICK k \in DealCall : /\ deal' = [deal EXCEPT ![c] = k]
                              /\ k.at = "commit" /\ k.req = r /\ k.base = deal[c].base
    <3> DEFINE n == [deal[c] EXCEPT !.at = "commit"]
    <3>1. n \in DealCall /\ n.at = "commit" /\ n.req = r /\ n.base = deal[c].base
      BY <1>1, MovedOn, StepsKnown
    <3>2. deal' = [deal EXCEPT ![c] = n]
      BY <1>5
    <3> QED
      BY <3>1, <3>2
  <2>2. a \in Apartments
    BY <1>3, RowTyped
  <2>3. Sanctioned(r.discount, a, r.actor)
    BY <1>3, <1>5, <2>2, WithinSanctioned
  <2>4. Establishes(k)
    BY <1>2, <2>1, <2>3 DEF Establishes
  <2> QED
    BY <1>1, <2>1, <2>4, ProceedsInv
<1> QED
  BY <1>4, <1>5 DEF ReadUpdateLimit

LEMMA AbandonDealInv ==
    ASSUME DealsInv, NEW c \in DealCalls, DealAbandon(c)
    PROVE  DealsInv'
BY ReplyInv, StepsKnown DEF DealAbandon
-----------------------------------------------------------------------------
(***************************************************************************)
(* The transactions.                                                       *)
(***************************************************************************)
LEMMA Housed == \A status \in DealStatuses : /\ Housing(status) \in {"free", "booked", "sold"}
                                             /\ ChatFor(status) \in SessionStatuses
BY DEF DealStatuses, Housing, ChatFor, SessionStatuses

LEMMA MovesApartment ==
    ASSUME DealsInv, NEW row \in DealRow, MovesWith(row)
    PROVE  /\ apartment' \in [Apartments -> ApartmentRow]
           /\ apartment'[row.apartment].status = Housing(row.status)
           /\ \A a \in Apartments \ {row.apartment} : apartment'[a] = apartment[a]
<1>1. row.apartment \in Apartments /\ row.status \in DealStatuses
  BY RowTyped
<1>2. apartment \in [Apartments -> ApartmentRow]
  BY DEF DealsInv, TypeOK
<1>3. PICK h \in {"free", "booked", "sold"} :
        /\ h = Housing(row.status)
        /\ apartment' = [apartment EXCEPT ![row.apartment].status = h]
  BY <1>1, Housed DEF MovesWith
<1>4. \A old \in ApartmentRow : /\ [old EXCEPT !.status = h] \in ApartmentRow
                                /\ [old EXCEPT !.status = h].status = h
  BY DEF ApartmentRow
<1>5. PICK new \in ApartmentRow :
        new.status = h /\ apartment' = [apartment EXCEPT ![row.apartment] = new]
  <2> DEFINE n == [apartment[row.apartment] EXCEPT !.status = h]
  <2>1. n \in ApartmentRow /\ n.status = h
    BY <1>1, <1>2, <1>4
  <2>2. apartment' = [apartment EXCEPT ![row.apartment] = n]
    BY <1>3
  <2> QED
    BY <2>1, <2>2
<1> QED
  BY <1>1, <1>2, <1>3, <1>5

(* A deal moves the status of its session, and nothing else of it.         *)
LEMMA MovesSession ==
    ASSUME DealsInv, NEW row \in DealRow, MovesWith(row),
           row.session # None => session[row.session] # None
    PROVE  ChatInv' /\ SessionsEvolve
<1>1. /\ row.session \in SessionIds \cup {None} /\ row.status \in DealStatuses
      /\ UNCHANGED <<message, rejections, chat>>
      /\ session \in [SessionIds -> SessionRow \cup {None}]
      /\ ChatInv
  BY RowTyped DEF MovesWith, DealsInv, ChatInv, ChatTypeOK
<1>2. /\ session' \in [SessionIds -> SessionRow \cup {None}] /\ SessionsEvolve
      /\ GeneralUnassigned'
  <2>1. CASE UNCHANGED session
    BY <1>1, <2>1, Unmoved DEF ChatInv, GeneralUnassigned
  <2>2. CASE row.session # None
    <3> DEFINE s == row.session
    <3>1. PICK status \in SessionStatuses : session' = [session EXCEPT ![s].status = status]
      BY <1>1, <2>2, Housed DEF MovesWith
    <3>2. s \in SessionIds /\ session[s] \in SessionRow
      BY <1>1, <2>2
    <3>3. ASSUME NEW old \in SessionRow
          PROVE  /\ [old EXCEPT !.status = status] \in SessionRow
                 /\ [old EXCEPT !.status = status].user = old.user
                 /\ [old EXCEPT !.status = status].employee = old.employee
                 /\ [old EXCEPT !.status = status].apartment = old.apartment
      BY DEF SessionRow
    <3>4. PICK new \in SessionRow :
            /\ session' = [session EXCEPT ![s] = new]
            /\ new.user = session[s].user /\ new.employee = session[s].employee
            /\ new.apartment = session[s].apartment
      BY <3>1, <3>2, <3>3
    <3>5. session' \in [SessionIds -> SessionRow \cup {None}]
      BY <1>1, <3>4
    <3>6. SessionsEvolve
      BY <1>1, <3>2, <3>4, NoneIsNoRow DEF SessionsEvolve, Evolves
    <3>7. GeneralUnassigned'
      BY <1>1, <3>2, <3>4, NoneIsNoRow DEF ChatInv, GeneralUnassigned
    <3> QED
      BY <3>5, <3>6, <3>7
  <2> QED
    BY <2>1, <2>2 DEF MovesWith
<1>3. message' \in [MessageIds -> MessageRow \cup {None}] /\ MessagesOK'
  BY <1>1, <1>2, MessagesKept DEF ChatInv, ChatTypeOK, MessagesOK
<1> QED
  BY <1>1, <1>2, <1>3, OutsideStepInv

LEMMA CommittedTyped ==
    ASSUME DealsInv, NEW c \in DealCalls, NEW id \in DealIds, NEW s, Committed(c, id, s)
    PROVE  \E k \in DealCall : /\ deal' = [deal EXCEPT ![c] = k]
                               /\ k.req = deal[c].req /\ k.deal = id
                               /\ k.at \in {"announce", "done"}
                               /\ k.at = "announce" => s # None
<1>1. PICK result \in {"ok", "lost"} :
        deal' = [deal EXCEPT ![c] =
                   [@ EXCEPT !.at = IF s # None /\ result = "ok" THEN "announce" ELSE "done",
                             !.deal = id,
                             !.told = IF s # None THEN "lost" ELSE result]]
  BY DEF Committed
<1>2. PICK step \in {"announce", "done"} :
        step = (IF s # None /\ result = "ok" THEN "announce" ELSE "done")
  OBVIOUS
<1>3. PICK told \in {"ok", "lost"} : told = (IF s # None THEN "lost" ELSE result)
  OBVIOUS
<1>4. ASSUME NEW k \in DealCall
      PROVE  /\ [k EXCEPT !.at = step, !.deal = id, !.told = told] \in DealCall
             /\ [k EXCEPT !.at = step, !.deal = id, !.told = told].at = step
             /\ [k EXCEPT !.at = step, !.deal = id, !.told = told].req = k.req
             /\ [k EXCEPT !.at = step, !.deal = id, !.told = told].deal = id
  BY DEF DealCall, DealSteps, DealResults
<1> DEFINE n == [deal[c] EXCEPT !.at = step, !.deal = id, !.told = told]
<1>5. deal[c] \in DealCall
  BY DEF DealsInv, TypeOK
<1>6. n \in DealCall /\ n.at = step /\ n.req = deal[c].req /\ n.deal = id
  BY <1>4, <1>5
<1>7. deal' = [deal EXCEPT ![c] = n]
  BY <1>1, <1>2, <1>3
<1> HIDE DEF n
<1> QED
  BY <1>2, <1>6, <1>7

LEMMA CeilingStays ==
    ASSUME DealsInv, UNCHANGED <<limit, ceiling>>
    PROVE  /\ CeilingRises /\ CeilingCovers'
           /\ ceiling' \in [Apartments -> [StaffRoles \cup {"user"} -> Percents]]
<1>1. \A a \in Apartments, r \in Roles : ceiling[a][r] \in Percents
  BY DEF DealsInv, TypeOK, Roles
<1>2. CeilingRises
  BY <1>1 DEF CeilingRises, Percents
<1>3. CeilingCovers'
  BY DEF DealsInv, CeilingCovers, MaxDiscount
<1>4. ceiling' \in [Apartments -> [StaffRoles \cup {"user"} -> Percents]]
  BY DEF DealsInv, TypeOK
<1> QED
  BY <1>2, <1>3, <1>4

(* What both transactions do: request c writes a deal, with a discount of  *)
(* u's, and what moves with it.                                            *)
Transacts(c, id, row, u) ==
    /\ deal[c].req \in DealRequests
    /\ deals' = [deals EXCEPT ![id] = row] /\ setter' = [setter EXCEPT ![id] = u]
    /\ MovesWith(row) /\ Committed(c, id, row.session)
    /\ UNCHANGED <<limit, ceiling, edited>>
    /\ Justified(row, u)
    /\ deals[id] # None =>
          /\ row.client = deals[id].client /\ row.employee = deals[id].employee
          /\ row.apartment = deals[id].apartment
          /\ row.session = deals[id].session /\ row.base = deals[id].base

LEMMA TransactionInv ==
    ASSUME DealsInv, NEW c \in DealCalls, NEW id \in DealIds, NEW row \in DealRow,
           NEW u \in Users, Transacts(c, id, row, u)
    PROVE  DealsInv'
<1> USE DEF Transacts
<1>1. row.session # None => session[row.session] # None
  BY DEF Justified, Served
<1>2. ChatInv' /\ SessionsEvolve
  BY <1>1, MovesSession
<1>3. /\ apartment' \in [Apartments -> ApartmentRow] /\ CeilingRises /\ CeilingCovers'
      /\ ceiling' \in [Apartments -> [StaffRoles \cup {"user"} -> Percents]]
  BY MovesApartment, CeilingStays
<1>4. PICK k \in DealCall : /\ deal' = [deal EXCEPT ![c] = k]
                            /\ k.req = deal[c].req /\ k.deal = id
                            /\ k.at \in {"announce", "done"}
                            /\ k.at = "announce" => row.session # None
  BY CommittedTyped
<1>5. /\ deals \in [DealIds -> DealRow \cup {None}] /\ setter \in [DealIds -> Users \cup {None}]
      /\ deal \in [DealCalls -> DealCall]
  BY DEF DealsInv, TypeOK
<1>6. TypeOK'
  BY <1>2, <1>3, <1>4, <1>5 DEF DealsInv, ChatInv, TypeOK
<1>7. Evolution
  <2>1. DealsEvolve
    BY <1>5, NoneIsNoDeal DEF DealsEvolve
  <2> QED
    BY <1>2, <1>3, <2>1 DEF Evolution
<1>8. ASSUME NEW e \in DealCalls PROVE deal'[e] = deal[e] \/ Establishes(deal[e])'
  <2>1. CASE e # c
    BY <1>4, <1>5, <2>1
  <2>2. CASE e = c
    <3>1. deal'[e] = k
      BY <1>4, <1>5, <2>2
    <3>2. deals'[id] = row /\ row # None
      BY <1>5, NoneIsNoDeal
    <3> QED
      BY <1>4, <3>1, <3>2 DEF Establishes
  <2> QED
    BY <2>1, <2>2
<1>9. ASSUME NEW d \in DealIds, deals'[d] # None
      PROVE  \/ deals'[d] = deals[d] /\ setter'[d] = setter[d]
             \/ Justified(deals[d], setter[d])'
  <2>1. CASE d # id
    BY <1>5, <2>1
  <2>2. CASE d = id
    <3>1. deals'[d] = row /\ setter'[d] = u
      BY <1>5, <2>2
    <3>2. Justified(row, u)'
      BY <1>6, <1>7, JustifiedStays DEF DealsInv
    <3> QED
      BY <3>1, <3>2 DEF Justified, Served, Follows
  <2> QED
    BY <2>1, <2>2
<1> QED
  BY <1>2, <1>3, <1>6, <1>7, <1>8, <1>9, EvolvedInv

(* The terms of a deal, set by someone to whom they were permitted.        *)
LEMMA TermsJustified ==
    ASSUME DealsInv, NEW row \in DealRow, NEW u \in Users, NEW p \in Int,
           Sanctioned(p, row.apartment, u), Served(row.employee, row.client, row.session),
           row.discount = Stored(p), row.total = Price(row.base, p)
    PROVE  Justified(row, u)
<1>1. PICK max \in Percents : max = ceiling[row.apartment][Role[u]] /\ max % 10 = 0
  BY RowTyped, RoleOf DEF DealsInv, TypeOK, CeilingCovers, Roles
<1>2. p \in Nat /\ p <= max
  BY <1>1 DEF Sanctioned
<1>3. Stored(p) <= max /\ p \in (Stored(p) - 5)..(Stored(p) + 5)
  BY <1>1, <1>2, Rounding
<1> QED
  BY <1>1, <1>3 DEF Justified, Follows

LEMMA TermsTyped ==
    ASSUME DealsInv, NEW p \in Int, NEW a \in Apartments, NEW u \in Users,
           Sanctioned(p, a, u), NEW base \in Nat
    PROVE  p \in Nat /\ Stored(p) \in Percents /\ Price(base, p) \in Nat
<1>1. PICK max \in Percents : max = ceiling[a][Role[u]] /\ max % 10 = 0
  BY RoleOf DEF DealsInv, TypeOK, CeilingCovers, Roles
<1>2. p \in Nat /\ p <= max
  BY <1>1 DEF Sanctioned
<1> QED
  BY <1>1, <1>2, Rounding, PriceTyped

LEMMA CommitDealTransacts ==
    ASSUME DealsInv, NEW c \in DealCalls, CommitDeal(c)
    PROVE  \E id \in DealIds, row \in DealRow, u \in Users : Transacts(c, id, row, u)
<1> DEFINE r == deal[c].req
           base == deal[c].base
           row == [client |-> r.client, employee |-> r.actor, apartment |-> r.apartment,
                   session |-> r.session, base |-> base, discount |-> Stored(r.discount),
                   total |-> Price(base, r.discount), status |-> "pending"]
<1>1. /\ deal[c].at = "commit" /\ r.op = "create" /\ deal[c] \in DealCall
      /\ Establishes(deal[c])
  BY DEF CommitDeal, DealsInv, TypeOK
<1>2. /\ r \in DealRequests /\ Sanctioned(r.discount, r.apartment, r.actor)
      /\ Served(r.actor, r.client, r.session)
  BY <1>1 DEF Establishes
<1>3. /\ r.actor \in Users /\ r.client \in Users /\ r.apartment \in Apartments
      /\ r.session \in SessionIds \cup {None} /\ r.discount \in Int
      /\ base \in Nat
  BY <1>1, <1>2, DealRequestKinds DEF DealCall
<1>4. Stored(r.discount) \in Percents /\ Price(base, r.discount) \in Nat
  BY <1>2, <1>3, TermsTyped
<1>5. row \in DealRow
  BY <1>3, <1>4 DEF DealRow, DealStatuses
<1>6. PICK id \in DealIds : /\ deals[id] = None
                            /\ deals' = [deals EXCEPT ![id] = row]
                            /\ setter' = [setter EXCEPT ![id] = r.actor]
                            /\ MovesWith(row) /\ Committed(c, id, row.session)
  BY DEF CommitDeal, DealRows
<1>7. Justified(row, r.actor)
  <2>1. /\ row.apartment = r.apartment /\ row.discount = Stored(r.discount)
        /\ row.total = Price(row.base, r.discount)
        /\ row.employee = r.actor /\ row.client = r.client /\ row.session = r.session
    OBVIOUS
  <2> HIDE DEF row
  <2> QED
    BY <1>2, <1>3, <1>5, <2>1, TermsJustified
<1>8. UNCHANGED <<limit, ceiling, edited>>
  BY DEF CommitDeal
<1> HIDE DEF row
<1> QED
  BY <1>2, <1>3, <1>5, <1>6, <1>7, <1>8 DEF Transacts

LEMMA CommitStatusTransacts ==
    ASSUME DealsInv, NEW c \in DealCalls, CommitStatus(c)
    PROVE  \E id \in DealIds, row \in DealRow, u \in Users : Transacts(c, id, row, u)
<1> DEFINE r == deal[c].req
           old == deals[r.deal]
<1>1. /\ deal[c].at = "commit" /\ r.op = "update" /\ deal[c] \in DealCall
      /\ Establishes(deal[c])
  BY DEF CommitStatus, DealsInv, TypeOK
<1>2. /\ r \in DealRequests /\ old # None /\ r.status \in DealStatuses
      /\ deal[c].base = old.base
      /\ r.discount # None => Sanctioned(r.discount, old.apartment, r.actor)
  BY <1>1 DEF Establishes
<1>3. /\ r.deal \in DealIds /\ r.actor \in Users /\ r.discount \in Int \cup {None}
      /\ old \in DealRow /\ Justified(old, setter[r.deal])
  <2>1. r.deal \in DealIds /\ r.actor \in Users /\ r.discount \in Int \cup {None}
    BY <1>1, <1>2, DealRequestKinds
  <2> QED
    BY <1>2, <2>1 DEF DealsInv, TypeOK
<1>4. UNCHANGED <<limit, ceiling, edited>>
  BY DEF CommitStatus
<1>5. CASE r.discount = None
  <2> DEFINE row == [old EXCEPT !.status = r.status]
             u == setter[r.deal]
  <2>1. ASSUME NEW x \in DealRow
        PROVE  LET n == [x EXCEPT !.status = r.status] IN
               /\ n \in DealRow /\ n.client = x.client /\ n.employee = x.employee
               /\ n.apartment = x.apartment /\ n.session = x.session /\ n.base = x.base
               /\ n.discount = x.discount /\ n.total = x.total
    BY <1>2 DEF DealRow
  <2>2. /\ row \in DealRow /\ row.client = old.client /\ row.employee = old.employee
        /\ row.apartment = old.apartment /\ row.session = old.session /\ row.base = old.base
        /\ row.discount = old.discount /\ row.total = old.total
    BY <1>3, <2>1
  <2>3. u \in Users
    BY <1>3 DEF Justified
  <2>4. /\ deals' = [deals EXCEPT ![r.deal] = row] /\ setter' = [setter EXCEPT ![r.deal] = u]
        /\ MovesWith(row) /\ Committed(c, r.deal, row.session)
    BY <1>5 DEF CommitStatus
  <2> HIDE DEF row, u
  <2>5. Justified(row, u)
    BY <1>3, <2>2 DEF Justified, Follows, u
  <2> QED
    BY <1>2, <1>3, <1>4, <2>2, <2>3, <2>4, <2>5 DEF Transacts
<1>6. CASE r.discount # None
  <2> DEFINE stored == Stored(r.discount)
             total == Price(deal[c].base, r.discount)
             row == [old EXCEPT !.status = r.status, !.discount = stored, !.total = total]
  <2>1. r.discount \in Int /\ old.apartment \in Apartments /\ old.base \in Nat
    BY <1>3, <1>6, RowTyped
  <2>2. stored \in Percents /\ total \in Nat
    BY <1>2, <1>3, <1>6, <2>1, TermsTyped
  <2>3. /\ deals' = [deals EXCEPT ![r.deal] = row]
        /\ setter' = [setter EXCEPT ![r.deal] = r.actor]
        /\ MovesWith(row) /\ Committed(c, r.deal, row.session)
    BY <1>6 DEF CommitStatus, BasePrice
  <2>4. stored = Stored(r.discount) /\ total = Price(old.base, r.discount)
    BY <1>2
  <2> HIDE DEF stored, total
  <2>5. ASSUME NEW x \in DealRow
        PROVE  LET n == [x EXCEPT !.status = r.status, !.discount = stored, !.total = total] IN
               /\ n \in DealRow /\ n.client = x.client /\ n.employee = x.employee
               /\ n.apartment = x.apartment /\ n.session = x.session /\ n.base = x.base
               /\ n.discount = stored /\ n.total = total
    BY <1>2, <2>2 DEF DealRow
  <2>6. /\ row \in DealRow /\ row.client = old.client /\ row.employee = old.employee
        /\ row.apartment = old.apartment /\ row.session = old.session /\ row.base = old.base
        /\ row.discount = stored /\ row.total = total
    BY <1>3, <2>5
  <2> HIDE DEF row
  <2>7. Served(row.employee, row.client, row.session)
    BY <1>3, <2>6 DEF Justified
  <2>8. Sanctioned(r.discount, row.apartment, r.actor)
    BY <1>2, <1>6, <2>6
  <2>9. Justified(row, r.actor)
    BY <1>3, <2>1, <2>4, <2>6, <2>7, <2>8, TermsJustified
  <2> QED
    BY <1>2, <1>3, <1>4, <2>3, <2>6, <2>9 DEF Transacts
<1> QED
  BY <1>5, <1>6
-----------------------------------------------------------------------------
LEMMA AnnounceInv ==
    ASSUME DealsInv, NEW c \in DealCalls, Announce(c)
    PROVE  DealsInv'
<1> DEFINE s == deals[deal[c].deal].session
<1>1. /\ deal[c].at = "announce" /\ deal[c] \in DealCall /\ Establishes(deal[c])
      /\ UNCHANGED <<session, rejections, chat, deals, apartment, limit, history>>
      /\ SendsMessage(s, None, "system") \/ UNCHANGED message
      /\ deal' = [deal EXCEPT ![c] = [@ EXCEPT !.at = "done", !.told = "ok"]]
  BY DEF Announce, Reply, DealsInv, TypeOK
<1>2. /\ deal[c].req \in DealRequests /\ deal[c].deal \in DealIds
      /\ deals[deal[c].deal] # None /\ s # None
  BY <1>1 DEF Establishes
<1>3. s \in SessionIds /\ session[s] # None
  <2>1. PICK row \in DealRow : row = deals[deal[c].deal]
    BY <1>2 DEF DealsInv, TypeOK
  <2>2. row.session \in SessionIds \cup {None} /\ Served(row.employee, row.client, row.session)
    BY <1>2, <2>1, RowTyped DEF DealsInv, Justified
  <2> QED
    BY <1>2, <2>1, <2>2 DEF Served
<1>4. message' \in [MessageIds -> MessageRow \cup {None}] /\ MessagesOK'
  <2>1. CASE UNCHANGED message
    BY <1>1, <2>1, MessagesKept, Unmoved DEF DealsInv, ChatInv, ChatTypeOK
  <2>2. CASE SendsMessage(s, None, "system")
    BY <1>1, <1>3, <2>2, SendsMessageOK DEF DealsInv
  <2> QED
    BY <1>1, <2>1, <2>2
<1>5. ChatInv'
  <2>1. /\ SessionsEvolve /\ GeneralUnassigned' /\ UNCHANGED <<rejections, chat>>
        /\ session' \in [SessionIds -> SessionRow \cup {None}] /\ ChatInv
    BY <1>1, Unmoved DEF DealsInv, ChatInv, ChatTypeOK, GeneralUnassigned
  <2> QED
    BY <1>4, <2>1, OutsideStepInv
<1>6. PICK k \in DealCall : /\ deal' = [deal EXCEPT ![c] = k]
                            /\ k.at = "done" /\ k.req = deal[c].req
  <2> DEFINE n == [deal[c] EXCEPT !.at = "done", !.told = "ok"]
  <2>1. n \in DealCall /\ n.at = "done" /\ n.req = deal[c].req
    BY <1>1, Replied, StepsKnown
  <2>2. deal' = [deal EXCEPT ![c] = n]
    BY <1>1
  <2> QED
    BY <2>1, <2>2
<1>7. CeilingRises /\ CeilingCovers'
  BY <1>1, CeilingStays DEF history
<1>8. Evolution
  BY <1>1, <1>7, Unmoved DEF Evolution, DealsEvolve
<1>9. TypeOK'
  BY <1>1, <1>5, <1>6 DEF DealsInv, ChatInv, TypeOK, history
<1>10. ASSUME NEW e \in DealCalls PROVE deal'[e] = deal[e] \/ Establishes(deal[e])'
  <2>1. CASE e # c
    BY <1>6, <2>1 DEF DealsInv, TypeOK
  <2>2. CASE e = c
    <3>1. deal'[e] = k
      BY <1>6, <2>2 DEF DealsInv, TypeOK
    <3> QED
      BY <1>2, <1>6, <3>1 DEF Establishes
  <2> QED
    BY <2>1, <2>2
<1> QED
  BY <1>1, <1>5, <1>7, <1>8, <1>9, <1>10, EvolvedInv DEF history

(***************************************************************************)
(* Staff may change limits, prices and buildings at any time: deals look   *)
(* at the ceiling, which only rises.                                       *)
(***************************************************************************)
LEMMA CatalogueInv ==
    ASSUME DealsInv, CatalogueStep
    PROVE  DealsInv'
<1>1. /\ UNCHANGED <<chatVars, deals, deal, setter>> /\ ceiling' = Raised(limit')
      /\ apartment' \in [Apartments -> ApartmentRow]
      /\ limit' \in [Apartments -> [StaffRoles -> Limits \cup {None}]]
      /\ edited' \subseteq Apartments
  <2>1. ASSUME NEW a \in Apartments, NEW r \in StaffRoles, NEW m \in Limits,
               PublishPolicy(a, r, m)
        PROVE  <1>1!:
    <3>1. limit' = [limit EXCEPT ![a] = [limit[a] EXCEPT ![r] = m]]
      BY <2>1 DEF PublishPolicy
    <3>2. limit \in [Apartments -> [StaffRoles -> Limits \cup {None}]]
      BY DEF DealsInv, TypeOK
    <3>3. [limit[a] EXCEPT ![r] = m] \in [StaffRoles -> Limits \cup {None}]
      BY <3>2
    <3> QED
      BY <2>1, <3>1, <3>2, <3>3 DEF PublishPolicy, DealsInv, TypeOK
  <2>2. ASSUME NEW a \in Apartments, NEW row \in ApartmentRows,
               NEW policies \in [StaffRoles -> Limits \cup {None}],
               UpdateApartment(a, row, policies)
        PROVE  <1>1!:
    <3>1. row \in ApartmentRow
      BY DealAssumption
    <3> QED
      BY <2>2, <3>1 DEF UpdateApartment, DealsInv, TypeOK
  <2> QED
    BY <2>1, <2>2 DEF CatalogueStep
<1>2. ASSUME NEW a \in Apartments, NEW r \in Roles
      PROVE  /\ ceiling'[a][r] \in Percents /\ ceiling'[a][r] % 10 = 0
             /\ ceiling[a][r] <= ceiling'[a][r]
             /\ MaxDiscount(limit', a, r) <= ceiling'[a][r]
  <2>1. PICK m \in Percents, old \in Percents :
          /\ m = MaxDiscount(limit', a, r) /\ m % 10 = 0
          /\ old = ceiling[a][r] /\ old % 10 = 0
    <3>1. ceiling[a][r] \in Percents /\ ceiling[a][r] % 10 = 0
      BY DEF DealsInv, TypeOK, CeilingCovers, Roles
    <3>2. MaxDiscount(limit', a, r) \in Percents /\ MaxDiscount(limit', a, r) % 10 = 0
      BY <1>1, LimitsTyped
    <3> QED
      BY <3>1, <3>2
  <2>2. ceiling'[a][r] = IF m > old THEN m ELSE old
    BY <1>1, <2>1 DEF Raised, Roles
  <2> QED
    BY <2>1, <2>2 DEF Percents
<1>3. ceiling' \in [Apartments -> [StaffRoles \cup {"user"} -> Percents]]
  <2>1. ceiling' = [a \in Apartments |-> ceiling'[a]]
    BY <1>1 DEF Raised
  <2>2. ASSUME NEW a \in Apartments PROVE ceiling'[a] \in [Roles -> Percents]
    <3>1. ceiling'[a] = [r \in Roles |-> ceiling'[a][r]]
      BY <1>1 DEF Raised, Roles
    <3> QED
      BY <1>2, <3>1
  <2> QED
    BY <2>1, <2>2 DEF Roles
<1>4. CeilingRises /\ CeilingCovers'
  BY <1>2 DEF CeilingRises, CeilingCovers
<1>5. ChatInv' /\ SessionsEvolve
  BY <1>1, StepInv, Unmoved DEF DealsInv, chatVars
<1>6. Evolution
  BY <1>1, <1>4, <1>5 DEF Evolution, DealsEvolve
<1>7. TypeOK'
  BY <1>1, <1>3, <1>5 DEF DealsInv, ChatInv, TypeOK
<1> QED
  BY <1>1, <1>4, <1>5, <1>6, <1>7, EvolvedInv

LEMMA ChatGoesOnInv ==
    ASSUME DealsInv, [ChatNext]_chatVars, UNCHANGED dealVars
    PROVE  DealsInv'
<1>1. ChatInv' /\ SessionsEvolve
  BY StepInv, ChatEvolves DEF DealsInv
<1>2. CeilingRises /\ CeilingCovers'
  BY CeilingStays DEF dealVars
<1>3. Evolution
  BY <1>1, <1>2 DEF Evolution, DealsEvolve, dealVars
<1>4. TypeOK'
  BY <1>1 DEF DealsInv, ChatInv, TypeOK, dealVars
<1> QED
  BY <1>1, <1>2, <1>3, <1>4, EvolvedInv DEF dealVars

LEMMA DealsStepInv == DealsInv /\ [Next]_vars => DealsInv'
<1> SUFFICES ASSUME DealsInv, [Next]_vars PROVE DealsInv'
  OBVIOUS
<1>1. CASE UNCHANGED vars
  BY <1>1, ChatGoesOnInv DEF vars
<1>2. CASE ChatNext /\ UNCHANGED dealVars
  BY <1>2, ChatGoesOnInv
<1>3. ASSUME NEW c \in DealCalls, DealStep(c) PROVE DealsInv'
  BY <1>3, ReadDealLimitInv, ReadDealInv, CheckClientInv, ReadSaleDataInv,
     CommitDealTransacts, CommitStatusTransacts, TransactionInv,
     ReadUpdateLimitInv, AnnounceInv, AbandonDealInv DEF DealStep
<1>4. CASE CatalogueStep
  BY <1>4, CatalogueInv
<1> QED
  BY <1>1, <1>2, <1>3, <1>4 DEF Next

LEMMA DealsInvariantHolds == Spec => []DealsInv
BY DealsInitInv, DealsStepInv, PTL DEF Spec
-----------------------------------------------------------------------------
(***************************************************************************)
(* An apartment follows its only deal: both transactions write deal and    *)
(* apartment together.                                                     *)
(***************************************************************************)
LEMMA DealMovesApartment ==
    ASSUME DealsInv, ApartmentFollowsItsOnlyDeal, NEW c, NEW id \in DealIds,
           NEW row \in DealRow, NEW u, Transacts(c, id, row, u)
    PROVE  ApartmentFollowsItsOnlyDeal'
<1> USE DEF Transacts
<1>1. deals \in [DealIds -> DealRow \cup {None}]
  BY DEF DealsInv, TypeOK
<1>2. row.status \in DealStatuses /\ row.apartment \in Apartments
  BY RowTyped
<1>3. /\ apartment'[row.apartment].status = Housing(row.status)
      /\ \A a \in Apartments \ {row.apartment} : apartment'[a] = apartment[a]
  BY MovesApartment
<1>4. SUFFICES ASSUME NEW d \in DealIds, deals'[d] # None,
                      deals'[d].apartment \notin edited,
                      \A e \in DealIds : deals'[e] # None
                         /\ deals'[e].apartment = deals'[d].apartment => e = d
               PROVE  <<deals'[d].status, apartment'[deals'[d].apartment].status>> \in
                         {<<"pending", "booked">>, <<"contract", "booked">>,
                          <<"completed", "sold">>, <<"cancelled", "free">>}
  BY DEF ApartmentFollowsItsOnlyDeal, DealRows
<1>5. CASE d = id
  <2>1. deals'[d] = row
    BY <1>1, <1>5
  <2> QED
    BY <1>2, <1>3, <2>1 DEF DealStatuses, Housing
<1>6. CASE d # id
  <2>1. deals'[d] = deals[d] /\ deals[d] \in DealRow /\ deals'[id] = row /\ row # None
    BY <1>1, <1>4, <1>6, NoneIsNoDeal
  <2>2. row.apartment # deals[d].apartment
    BY <1>4, <1>6, <2>1
  <2>3. apartment'[deals[d].apartment] = apartment[deals[d].apartment]
    BY <1>3, <2>1, <2>2, RowTyped
  <2>4. ASSUME NEW e \in DealIds, deals[e] # None, deals[e].apartment = deals[d].apartment
        PROVE  e = d
    <3>1. e # id
      BY <2>2, <2>4
    <3> QED
      BY <1>1, <1>4, <2>1, <2>4, <3>1
  <2> QED
    BY <1>4, <2>1, <2>3, <2>4 DEF ApartmentFollowsItsOnlyDeal, DealRows
<1> QED
  BY <1>5, <1>6

LEMMA FollowsStep ==
    ASSUME DealsInv, ApartmentFollowsItsOnlyDeal, [Next]_vars
    PROVE  ApartmentFollowsItsOnlyDeal'
<1>1. ASSUME UNCHANGED <<deals, apartment, edited>> PROVE ApartmentFollowsItsOnlyDeal'
  BY <1>1 DEF ApartmentFollowsItsOnlyDeal, DealRows
<1>2. CASE UNCHANGED vars \/ (ChatNext /\ UNCHANGED dealVars)
  BY <1>1, <1>2 DEF vars, dealVars
<1>3. ASSUME NEW c \in DealCalls, DealStep(c) PROVE ApartmentFollowsItsOnlyDeal'
  <2>1. CASE CommitDeal(c) \/ CommitStatus(c)
    BY <2>1, CommitDealTransacts, CommitStatusTransacts, DealMovesApartment
  <2>2. CASE \E r \in DealRequests : ReadDealLimit(c, r) \/ ReadDeal(c, r)
    BY <1>1, <2>2 DEF ReadDealLimit, ReadDeal, history
  <2>3. CASE CheckClient(c) \/ ReadSaleData(c) \/ ReadUpdateLimit(c)
    BY <1>1, <2>3 DEF CheckClient, ReadSaleData, ReadUpdateLimit, history
  <2>4. CASE Announce(c) \/ DealAbandon(c)
    BY <1>1, <2>4 DEF Announce, DealAbandon, history
  <2> QED
    BY <1>3, <2>1, <2>2, <2>3, <2>4 DEF DealStep
<1>4. ASSUME NEW a \in Apartments, NEW r \in StaffRoles, NEW m \in Limits,
             PublishPolicy(a, r, m)
      PROVE  ApartmentFollowsItsOnlyDeal'
  BY <1>1, <1>4 DEF PublishPolicy
<1>5. ASSUME NEW a \in Apartments, NEW row, NEW policies, UpdateApartment(a, row, policies)
      PROVE  ApartmentFollowsItsOnlyDeal'
  <2>1. /\ UNCHANGED deals /\ edited' = edited \cup {a}
        /\ apartment' = [apartment EXCEPT ![a] = row]
        /\ apartment \in [Apartments -> ApartmentRow]
    BY <1>5 DEF UpdateApartment, DealsInv, TypeOK
  <2>2. ASSUME NEW d \in DealRows, deals[d].apartment \notin edited'
        PROVE  /\ deals[d].apartment \notin edited
               /\ apartment'[deals[d].apartment] = apartment[deals[d].apartment]
    <3>1. deals[d].apartment \in Apartments
      BY RowTyped DEF DealRows, DealsInv, TypeOK
    <3> QED
      BY <2>1, <2>2, <3>1
  <2> QED
    BY <2>1, <2>2 DEF ApartmentFollowsItsOnlyDeal, DealRows
<1> QED
  BY <1>2, <1>3, <1>4, <1>5 DEF Next, CatalogueStep

LEMMA DealsFollowInit == Init => ApartmentFollowsItsOnlyDeal
BY DEF Init, ApartmentFollowsItsOnlyDeal, DealRows
-----------------------------------------------------------------------------
(***************************************************************************)
(* Deals, apartments, limits, requests in flight and the history keep      *)
(* their types: money never goes below zero, and a percentage stays one.   *)
(***************************************************************************)
THEOREM DealsTyped == Spec => []TypeOK
<1>1. DealsInv => TypeOK
  BY DEF DealsInv
<1> QED
  BY <1>1, DealsInvariantHolds, PTL

(***************************************************************************)
(* CanCreateDealForUser: a manager's deal is with a client he serves, ever *)
(* after it was made, since no session changes its client or its manager.  *)
(***************************************************************************)
THEOREM OwnClientsOnly == Spec => []DealsOnlyForOwnClients
<1>1. DealsInv => DealsOnlyForOwnClients
  <2> SUFFICES ASSUME DealsInv, NEW d \in DealIds, deals[d] # None,
                      Role[deals[d].employee] = "manager"
               PROVE  \E s \in Sessions : /\ session[s].user = deals[d].client
                                          /\ session[s].employee = deals[d].employee
                                          /\ deals[d].session \in {None, s}
    BY DEF DealsOnlyForOwnClients, DealRows
  <2>1. Served(deals[d].employee, deals[d].client, deals[d].session)
    BY DEF DealsInv, Justified
  <2> QED
    BY <2>1 DEF Served, Sessions
<1> QED
  BY <1>1, DealsInvariantHolds, PTL

(***************************************************************************)
(* maxDiscount: whatever the limits became before the transaction, a       *)
(* stored discount was within one that was in force for its setter, and    *)
(* rounding to the column does not lift it above.                          *)
(***************************************************************************)
THEOREM DiscountsWithinLimits == Spec => []DiscountWithinALimit
<1>1. DealsInv => DiscountWithinALimit
  BY DEF DealsInv, DiscountWithinALimit, DealRows, Justified
<1> QED
  BY <1>1, DealsInvariantHolds, PTL

(***************************************************************************)
(* Base, discount and total of every deal agree, through concurrent        *)
(* updates and repricing.                                                  *)
(***************************************************************************)
THEOREM TotalsFollow == Spec => []TotalFollowsDiscount
<1>1. DealsInv => TotalFollowsDiscount
  BY DEF DealsInv, TotalFollowsDiscount, DealRows, Justified, Follows
<1> QED
  BY <1>1, DealsInvariantHolds, PTL

(***************************************************************************)
(* The transactions of repository/deal.go: an apartment that staff did not *)
(* edit has the status of its only deal.                                   *)
(***************************************************************************)
THEOREM ApartmentsFollow == Spec => []ApartmentFollowsItsOnlyDeal
BY DealsInvariantHolds, DealsFollowInit, FollowsStep, PTL DEF Spec
=============================================================================
