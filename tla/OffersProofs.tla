---------------------------- MODULE OffersProofs ----------------------------
(***************************************************************************)
(* Proofs about Offers, for every set of calls, users, deals and units,    *)
(* and about OfferDelivery, in which the offers go on living while they    *)
(* are downloaded and mailed.                                              *)
(***************************************************************************)
EXTENDS OfferDelivery, TLAPS

CreateSteps == {"price", "parking", "storage", "lookup", "snapshot", "insert"}

(***************************************************************************)
(* What a call at a given statement has established about its request: its *)
(* kind, that the percentage was parsed, that the offer exists, and that a *)
(* verdict is a supervisor's.                                              *)
(***************************************************************************)
ShapeOf(c) ==
    /\ pc[c] \in CreateSteps =>
          req[c] \in CreateRequest /\ req[c].discount \in BasisPoints
    /\ pc[c] \in {"mark", "recheck"} =>
          req[c] \in SubmitRequest /\ offers[req[c].offer] # None
    /\ pc[c] = "settle" =>
          /\ req[c] \in DecideRequest /\ offers[req[c].offer] # None
          /\ Role[req[c].actor] = "supervisor"
    /\ pc[c] # "idle" => req[c] \in Requests

CallShape == \A c \in Calls : ShapeOf(c)

Typed == TypeOK /\ CallShape

LEMMA RequestKinds ==
    ASSUME NEW r \in Requests
    PROVE  /\ r.op = "create" => r \in CreateRequest
           /\ r.op = "submit" => r \in SubmitRequest
           /\ r.op = "decide" => r \in DecideRequest
BY RequestsAssumption DEF CreateRequest, SubmitRequest, DecideRequest

LEMMA BasisPointsAreInts == BasisPoints \subseteq Int
BY DEF BasisPoints

LEMMA MaxDiscountRange ==
    ASSUME NEW lim \in [Buildings -> [StaffRoles -> Limits \cup {None}]],
           NEW b \in Buildings, NEW r \in StaffRoles
    PROVE  MaxDiscount(lim, b, r) \in BasisPoints
<1>1. lim[b][r] \in Limits \cup {None}
  OBVIOUS
<1>2. ManagerMax \in BasisPoints /\ SupervisorMax \in BasisPoints
  BY LimitsAssumption
<1>3. lim[b][r] # None => lim[b][r] \in BasisPoints
  BY <1>1, LimitsAssumption
<1> QED
  BY <1>2, <1>3 DEF MaxDiscount

(* Whatever wraps around, the arithmetic of a price stays in the integers. *)
LEMMA FinalPriceIsInt ==
    ASSUME NEW x \in Int, NEW y \in Int
    PROVE  FinalPrice(x, y) \in Int
<1>1. ASSUME NEW z \in Int PROVE Wrap(z) \in Int
  BY <1>1, PricesAssumption DEF Wrap
<1>2. ASSUME NEW z \in Int PROVE Quotient(z, 10000) \in Int
  BY <1>2 DEF Quotient
<1>3. x * y + 5000 \in Int
  OBVIOUS
<1>4. DiscountAmount(x, y) \in Int
  BY <1>1, <1>2, <1>3 DEF DiscountAmount
<1> QED
  BY <1>1, <1>4 DEF FinalPrice

LEMMA TypedInit == Init => Typed
<1> SUFFICES ASSUME Init PROVE Typed
  OBVIOUS
<1>1. ASSUME NEW a \in Apartments, NEW r \in StaffRoles
      PROVE  MaxDiscount(limit, apartment[a].building, r) \in BasisPoints
  BY <1>1, MaxDiscountRange DEF Init, ApartmentRow
<1>2. TypeOK
  BY <1>1 DEF Init, TypeOK, Steps, Work, Blank, Replies, NoReply, Results
<1>3. CallShape
  BY DEF Init, CallShape, ShapeOf, CreateSteps
<1> QED
  BY <1>2, <1>3 DEF Typed
-----------------------------------------------------------------------------
(* How a step moves one call: to an answer, or on to the next statement.   *)
LEMMA AnswerTyped ==
    ASSUME TypeOK, NEW c \in Calls, NEW res \in Results,
           NEW id \in OfferIds \cup {None}, Answer(c, res, id)
    PROVE  /\ pc' \in [Calls -> Steps] /\ pc'[c] = "done"
           /\ work' \in [Calls -> Work] /\ reply' \in [Calls -> Replies]
           /\ \A x \in Calls \ {c} : pc'[x] = pc[x]
<1>1. pc' \in [Calls -> Steps] /\ pc'[c] = "done" /\ \A x \in Calls \ {c} : pc'[x] = pc[x]
  BY DEF Answer, Goto, TypeOK, Steps
<1>2. Blank \in Work
  BY DEF Blank, Work
<1>3. [result |-> res, offer |-> id] \in Replies
  BY DEF Replies
<1> QED
  BY <1>1, <1>2, <1>3 DEF Answer, TypeOK

LEMMA ContinueTyped ==
    ASSUME TypeOK, NEW c \in Calls, NEW step \in Steps, NEW w \in Work,
           Continue(c, step, w)
    PROVE  /\ pc' \in [Calls -> Steps] /\ pc'[c] = step
           /\ work' \in [Calls -> Work] /\ reply' \in [Calls -> Replies]
           /\ \A x \in Calls \ {c} : pc'[x] = pc[x]
BY DEF Continue, Goto, TypeOK

(* Rows are never deleted. *)
OffersGrow == \A id \in OfferIds : offers[id] # None => offers'[id] # None

LEMMA ShapeKept ==
    ASSUME NEW c \in Calls, ShapeOf(c), OffersGrow, pc'[c] = pc[c], req'[c] = req[c]
    PROVE  ShapeOf(c)'
BY DEF ShapeOf, OffersGrow, SubmitRequest, DecideRequest

(* A step of one call keeps the types if what it changes keeps them.       *)
LEMMA CallStepTyped ==
    ASSUME Typed, NEW c \in Calls, UNCHANGED catalogue,
           offers' \in [OfferIds -> OfferRow \cup {None}], OffersGrow,
           req' \in [Calls -> Requests \cup {None}],
           pc' \in [Calls -> Steps], work' \in [Calls -> Work], reply' \in [Calls -> Replies],
           \A x \in Calls \ {c} : pc'[x] = pc[x] /\ req'[x] = req[x],
           ShapeOf(c)'
    PROVE  Typed'
<1>1. TypeOK'
  BY DEF Typed, TypeOK, catalogue
<1>2. ASSUME NEW x \in Calls \ {c} PROVE ShapeOf(x)'
  BY <1>2, ShapeKept DEF Typed, CallShape
<1> QED
  BY <1>1, <1>2 DEF Typed, CallShape

LEMMA ReadLimitTyped ==
    ASSUME Typed, NEW c \in Calls, NEW r \in Requests, ReadLimit(c, r)
    PROVE  Typed'
<1> USE DEF Typed
<1> DEFINE max == MaxDiscount(limit, apartment[DealApartment[r.deal]].building,
                              Role[r.actor])
<1>1. r \in CreateRequest /\ req'[c] = r /\ req' \in [Calls -> Requests \cup {None}]
  BY RequestKinds DEF ReadLimit, TypeOK
<1>2. \A x \in Calls \ {c} : req'[x] = req[x]
  BY DEF ReadLimit, TypeOK
<1>3. /\ pc' \in [Calls -> Steps] /\ work' \in [Calls -> Work]
      /\ reply' \in [Calls -> Replies]
      /\ \A x \in Calls \ {c} : pc'[x] = pc[x]
      /\ \/ pc'[c] = "done"
         \/ pc'[c] = "price" /\ r.discount \in BasisPoints
  <2>1. CASE Answer(c, "invalid_discount", None)
    BY <2>1, AnswerTyped DEF Results
  <2>2. CASE Answer(c, "forbidden", None)
    BY <2>2, AnswerTyped DEF Results
  <2>3. ASSUME r.discount \in BasisPoints, MayOffer(r.actor, r.deal),
               Continue(c, "price", [Blank EXCEPT !.approval = Exceeds(r.discount, max)])
        PROVE  <1>3
    <3>1. Role[r.actor] \in StaffRoles
      BY <2>3 DEF MayOffer, StaffRoles
    <3>2. apartment[DealApartment[r.deal]].building \in Buildings
      BY <1>1, DealsAssumption DEF TypeOK, ApartmentRow, CreateRequest
    <3>3. limit \in [Buildings -> [StaffRoles -> Limits \cup {None}]]
      BY DEF TypeOK
    <3>4. max \in BasisPoints
      BY ONLY <3>1, <3>2, <3>3, MaxDiscountRange
    <3>5. max \in Int
      BY <3>4, BasisPointsAreInts
    <3>6. Exceeds(r.discount, max) \in BOOLEAN
      BY <1>1, <3>5 DEF CreateRequest, Exceeds
    <3>7. ASSUME NEW w \in Work, NEW flag \in BOOLEAN
          PROVE  [w EXCEPT !.approval = flag] \in Work
      BY DEF Work
    <3>8. Blank \in Work
      BY DEF Blank, Work
    <3>9. [Blank EXCEPT !.approval = Exceeds(r.discount, max)] \in Work
      BY <3>6, <3>7, <3>8
    <3> QED
      BY <2>3, <3>9, ContinueTyped DEF Steps
  <2> QED
    BY <2>1, <2>2, <2>3 DEF ReadLimit
<1>4. ShapeOf(c)'
  BY <1>1, <1>3 DEF ShapeOf, CreateSteps
<1> QED
  BY <1>1, <1>2, <1>3, <1>4, CallStepTyped DEF ReadLimit, table, OffersGrow, TypeOK

(* A statement inside Create that leaves the table alone.                  *)
LEMMA CreateReadTyped ==
    ASSUME Typed, NEW c \in Calls, pc[c] \in CreateSteps,
           UNCHANGED <<offers, catalogue, req>>,
           NEW step \in CreateSteps, NEW w \in Work, NEW res \in Results,
           NEW id \in OfferIds \cup {None},
           Answer(c, res, id) \/ Continue(c, step, w)
    PROVE  Typed'
<1> USE DEF Typed
<1>1. /\ pc' \in [Calls -> Steps] /\ work' \in [Calls -> Work]
      /\ reply' \in [Calls -> Replies]
      /\ \A x \in Calls \ {c} : pc'[x] = pc[x]
      /\ pc'[c] \in CreateSteps \cup {"done"}
  <2>1. CASE Answer(c, res, id)
    BY <2>1, AnswerTyped
  <2>2. CASE Continue(c, step, w)
    BY <2>2, ContinueTyped DEF CreateSteps, Steps
  <2> QED
    BY <2>1, <2>2
<1>2. ShapeOf(c)'
  BY <1>1 DEF CallShape, ShapeOf, CreateSteps
<1> QED
  BY <1>1, <1>2, CallStepTyped DEF OffersGrow, TypeOK

LEMMA CreateShape ==
    ASSUME Typed, NEW c \in Calls, pc[c] \in CreateSteps
    PROVE  /\ req[c] \in CreateRequest /\ req[c].discount \in BasisPoints
           /\ work[c] \in Work
BY DEF Typed, CallShape, ShapeOf, TypeOK

LEMMA ReadPriceTyped ==
    ASSUME Typed, NEW c \in Calls, ReadPrice(c)
    PROVE  Typed'
<1> DEFINE a == apartment[DealApartment[req[c].deal]]
<1>1. pc[c] \in CreateSteps /\ UNCHANGED <<offers, catalogue, req>>
  BY DEF ReadPrice, CreateSteps, table
<1>2. CASE Answer(c, "invalid_price", None)
  BY <1>1, <1>2, CreateReadTyped, CreateShape DEF Results, CreateSteps
<1>3. CASE a.price > 0 /\ Continue(c, "parking",
               [work[c] EXCEPT !.base = a.price, !.building = a.building])
  <2>1. apartment[DealApartment[req[c].deal]] \in ApartmentRow
    BY <1>1, CreateShape, DealsAssumption DEF Typed, TypeOK, CreateRequest
  <2>2. a.price \in Nat /\ a.building \in Buildings
    BY <1>3, <2>1, PricesAssumption DEF ApartmentRow
  <2>3. ASSUME NEW w \in Work, NEW x \in Nat, NEW y \in Buildings
        PROVE  [w EXCEPT !.base = x, !.building = y] \in Work
    BY DEF Work
  <2>4. [work[c] EXCEPT !.base = a.price, !.building = a.building] \in Work
    BY <1>1, <2>2, <2>3, CreateShape
  <2> QED
    BY <1>1, <1>3, <2>4, CreateReadTyped DEF Results, CreateSteps
<1> QED
  BY <1>2, <1>3 DEF ReadPrice, Priced

LEMMA ReadUnitTyped ==
    ASSUME Typed, NEW c \in Calls, NEW kind \in {"parking", "storage"},
           NEW next \in {"storage", "lookup"}, ReadUnit(c, kind, next)
    PROVE  Typed'
<1> DEFINE u == req[c].units[kind]
           total == work[c].base + (IF u = None THEN 0 ELSE unit[u].price)
<1>1. pc[c] \in CreateSteps /\ UNCHANGED <<offers, catalogue, req>>
  BY DEF ReadUnit, CreateSteps, table
<1>2. CASE Answer(c, "invalid_unit", None) \/ Answer(c, "invalid_price", None)
  BY <1>1, <1>2, CreateReadTyped, CreateShape DEF Results, CreateSteps
<1>3. CASE Continue(c, next, [work[c] EXCEPT !.base = total])
  <2>1. u \in Units \cup {None}
    BY <1>1, CreateShape DEF CreateRequest, UnitChoice
  <2>2. u # None => unit[u].price \in Nat
    BY <2>1, PricesAssumption DEF Typed, TypeOK, UnitRow
  <2>3. total \in Nat
    BY <1>1, <2>2, CreateShape DEF Work
  <2>4. [work[c] EXCEPT !.base = total] \in Work
    BY <1>1, <2>3, CreateShape DEF Work
  <2> QED
    BY <1>1, <1>3, <2>4, CreateReadTyped DEF Results, CreateSteps
<1> QED
  BY <1>2, <1>3 DEF ReadUnit

LEMMA LookupTyped ==
    ASSUME Typed, NEW c \in Calls, Lookup(c)
    PROVE  Typed'
<1>1. pc[c] \in CreateSteps /\ UNCHANGED <<offers, catalogue, req>>
  BY DEF Lookup, CreateSteps, table
<1>2. CASE Continue(c, "snapshot", work[c])
  BY <1>1, <1>2, CreateReadTyped, CreateShape DEF Results, CreateSteps
<1>3. ASSUME NEW id \in OfferIds, Answer(c, "ok", id) \/ Answer(c, "forbidden", None)
      PROVE  Typed'
  BY <1>1, <1>3, CreateReadTyped, CreateShape DEF Results, CreateSteps
<1> QED
  BY <1>2, <1>3 DEF Lookup, WithKey, Rows

LEMMA SnapshotTyped ==
    ASSUME Typed, NEW c \in Calls, Snapshot(c)
    PROVE  Typed'
<1>1. pc[c] \in CreateSteps /\ UNCHANGED <<offers, catalogue, req>>
  BY DEF Snapshot, CreateSteps, table
<1>2. PICK v \in {offers[id].version : id \in OffersOf(req[c].deal)} \cup {0} :
           Continue(c, "insert", [work[c] EXCEPT !.version = v + 1])
  BY DEF Snapshot
<1>3. v \in Nat
  BY <1>2 DEF Typed, TypeOK, OffersOf, Rows, OfferRow
<1>4. [work[c] EXCEPT !.version = v + 1] \in Work
  BY <1>1, <1>3, CreateShape DEF Work
<1> QED
  BY <1>1, <1>2, <1>4, CreateReadTyped DEF Results, CreateSteps

LEMMA NewRowTyped ==
    ASSUME Typed, NEW c \in Calls, pc[c] = "insert"
    PROVE  NewRow(c) \in OfferRow
<1>1. req[c] \in CreateRequest /\ req[c].discount \in BasisPoints /\ work[c] \in Work
  BY CreateShape DEF CreateSteps
<1>2. FinalPrice(work[c].base, req[c].discount) \in Int
  <2>1. req[c].discount \in Int
    BY <1>1, BasisPointsAreInts
  <2>2. work[c].base \in Int
    BY <1>1 DEF Work
  <2> QED
    BY <2>1, <2>2, FinalPriceIsInt
<1>3. BirthStatus(work[c].approval) \in Statuses
  BY DEF BirthStatus, Statuses
<1>4. /\ req[c].key \in RequestIds /\ req[c].deal \in Deals /\ req[c].actor \in Users
      /\ req[c].units \in UnitChoice
  BY <1>1 DEF CreateRequest
<1>5. work[c].version \in Nat /\ work[c].base \in Nat /\ work[c].approval \in BOOLEAN
  BY <1>1 DEF Work
<1> QED
  BY <1>1, <1>2, <1>3, <1>4, <1>5, Zenon DEF NewRow, OfferRow

LEMMA InsertTyped ==
    ASSUME Typed, NEW c \in Calls, Insert(c)
    PROVE  Typed'
<1>1. pc[c] \in CreateSteps /\ UNCHANGED <<catalogue, req>>
  BY DEF Insert, CreateSteps
<1>2. CASE UNCHANGED offers
  <2>1. ASSUME NEW res \in {"ok", "error", "lost"}, NEW id \in OfferIds \cup {None}, Answer(c, res, id)
        PROVE  Typed'
    BY <1>1, <1>2, <2>1, CreateReadTyped, CreateShape DEF Results, CreateSteps
  <2> QED
    BY <2>1 DEF Insert, Acknowledge, KeyConflict, WithKey, Rows
<1>3. CASE \E id \in OfferIds \ Rows :
              offers' = [offers EXCEPT ![id] = NewRow(c)] /\ Acknowledge(c, id)
  <2>1. PICK id \in OfferIds \ Rows :
              offers' = [offers EXCEPT ![id] = NewRow(c)] /\ Acknowledge(c, id)
    BY <1>3
  <2>2. NewRow(c) \in OfferRow
    BY NewRowTyped DEF Insert
  <2>3. offers' \in [OfferIds -> OfferRow \cup {None}] /\ OffersGrow
    BY <2>1, <2>2, NoneAssumption DEF Typed, TypeOK, OffersGrow
  <2>4. /\ pc' \in [Calls -> Steps] /\ pc'[c] = "done"
        /\ work' \in [Calls -> Work] /\ reply' \in [Calls -> Replies]
        /\ \A x \in Calls \ {c} : pc'[x] = pc[x]
    BY <2>1, AnswerTyped DEF Acknowledge, Typed, Results
  <2>5. ShapeOf(c)'
    BY <1>1, <2>4 DEF Typed, CallShape, ShapeOf, CreateSteps
  <2> QED
    BY <1>1, <2>3, <2>4, <2>5, CallStepTyped DEF Typed, TypeOK
<1> QED
  BY <1>2, <1>3 DEF Insert

LEMMA ReadOfferTyped ==
    ASSUME Typed, NEW c \in Calls, NEW r \in Requests, ReadOffer(c, r)
    PROVE  Typed'
<1> USE DEF Typed
<1>1. r \in SubmitRequest /\ req'[c] = r /\ req' \in [Calls -> Requests \cup {None}]
  BY RequestKinds DEF ReadOffer, TypeOK
<1>2. \A x \in Calls \ {c} : req'[x] = req[x]
  BY DEF ReadOffer, TypeOK
<1>3. /\ pc' \in [Calls -> Steps] /\ work' \in [Calls -> Work]
      /\ reply' \in [Calls -> Replies]
      /\ \A x \in Calls \ {c} : pc'[x] = pc[x]
      /\ \/ pc'[c] = "done"
         \/ pc'[c] = "mark" /\ offers[r.offer] # None
  <2>1. ASSUME NEW res \in Results, NEW id \in OfferIds \cup {None}, Answer(c, res, id)
        PROVE  <1>3
    BY <2>1, AnswerTyped
  <2>2. CASE Continue(c, "mark", Blank) /\ offers[r.offer] # None
    <3>1. Blank \in Work
      BY DEF Blank, Work
    <3> QED
      BY <2>2, <3>1, ContinueTyped DEF Steps
  <2> QED
    BY <1>1, <2>1, <2>2 DEF ReadOffer, Results, SubmitRequest
<1>4. ShapeOf(c)'
  BY <1>1, <1>3 DEF ShapeOf, CreateSteps, ReadOffer, table
<1> QED
  BY <1>1, <1>2, <1>3, <1>4, CallStepTyped DEF ReadOffer, table, OffersGrow, TypeOK

LEMMA ReadForDecisionTyped ==
    ASSUME Typed, NEW c \in Calls, NEW r \in Requests, ReadForDecision(c, r)
    PROVE  Typed'
<1> USE DEF Typed
<1>1. r \in DecideRequest /\ req'[c] = r /\ req' \in [Calls -> Requests \cup {None}]
  BY RequestKinds DEF ReadForDecision, TypeOK
<1>2. \A x \in Calls \ {c} : req'[x] = req[x]
  BY DEF ReadForDecision, TypeOK
<1>3. /\ pc' \in [Calls -> Steps] /\ work' \in [Calls -> Work]
      /\ reply' \in [Calls -> Replies]
      /\ \A x \in Calls \ {c} : pc'[x] = pc[x]
      /\ \/ pc'[c] = "done"
         \/ /\ pc'[c] = "settle" /\ offers[r.offer] # None
            /\ Role[r.actor] = "supervisor"
  <2>1. ASSUME NEW res \in Results, NEW id \in OfferIds \cup {None}, Answer(c, res, id)
        PROVE  <1>3
    BY <2>1, AnswerTyped
  <2>2. CASE /\ Continue(c, "settle", Blank) /\ offers[r.offer] # None
             /\ Role[r.actor] = "supervisor"
    <3>1. Blank \in Work
      BY DEF Blank, Work
    <3> QED
      BY <2>2, <3>1, ContinueTyped DEF Steps
  <2> QED
    BY <2>1, <2>2 DEF ReadForDecision, Results
<1>4. ShapeOf(c)'
  BY <1>1, <1>3 DEF ShapeOf, CreateSteps, ReadForDecision, table
<1> QED
  BY <1>1, <1>2, <1>3, <1>4, CallStepTyped DEF ReadForDecision, table, OffersGrow, TypeOK

(* A status or a verdict written into a row leaves a row.                  *)
LEMMA RowUpdates ==
    ASSUME NEW row \in OfferRow, NEW st \in Statuses,
           NEW x \in Users \cup {None}, NEW y \in Users \cup {None}
    PROVE  /\ [row EXCEPT !.status = st] \in OfferRow
           /\ [row EXCEPT !.status = st, !.approvedBy = x, !.rejectedBy = y] \in OfferRow
BY DEF OfferRow

(* A call that overwrites a row and answers.                               *)
LEMMA RowWriteTyped ==
    ASSUME Typed, NEW c \in Calls, pc[c] \in {"mark", "settle"},
           NEW id \in OfferIds, NEW row \in OfferRow,
           offers' = [offers EXCEPT ![id] = row],
           Acknowledge(c, id), UNCHANGED <<catalogue, req>>
    PROVE  Typed'
<1> USE DEF Typed
<1>1. offers' \in [OfferIds -> OfferRow \cup {None}] /\ OffersGrow
  BY NoneAssumption DEF TypeOK, OffersGrow
<1>2. /\ pc' \in [Calls -> Steps] /\ pc'[c] = "done"
      /\ work' \in [Calls -> Work] /\ reply' \in [Calls -> Replies]
      /\ \A x \in Calls \ {c} : pc'[x] = pc[x]
  BY AnswerTyped DEF Acknowledge, Results
<1>3. ShapeOf(c)'
  BY <1>2 DEF CallShape, ShapeOf, CreateSteps
<1> QED
  BY <1>1, <1>2, <1>3, CallStepTyped DEF TypeOK

(* A call that answers or goes on without touching the table.              *)
LEMMA VerdictReadTyped ==
    ASSUME Typed, NEW c \in Calls, pc[c] # "idle", UNCHANGED <<offers, catalogue, req>>,
           NEW res \in Results, NEW id \in OfferIds \cup {None},
           \/ Answer(c, res, id)
           \/ pc[c] = "mark" /\ Continue(c, "recheck", Blank)
    PROVE  Typed'
<1> USE DEF Typed
<1>1. /\ pc' \in [Calls -> Steps] /\ work' \in [Calls -> Work]
      /\ reply' \in [Calls -> Replies]
      /\ \A x \in Calls \ {c} : pc'[x] = pc[x]
      /\ pc'[c] = "done" \/ (pc[c] = "mark" /\ pc'[c] = "recheck")
  <2>1. CASE Answer(c, res, id)
    BY <2>1, AnswerTyped
  <2>2. CASE pc[c] = "mark" /\ Continue(c, "recheck", Blank)
    <3>1. Blank \in Work
      BY DEF Blank, Work
    <3> QED
      BY <2>2, <3>1, ContinueTyped DEF Steps
  <2> QED
    BY <2>1, <2>2
<1>2. ShapeOf(c)'
  BY <1>1 DEF CallShape, ShapeOf, CreateSteps
<1> QED
  BY <1>1, <1>2, CallStepTyped DEF OffersGrow, TypeOK

LEMMA VerdictTyped ==
    ASSUME Typed, NEW c \in Calls, Mark(c) \/ Recheck(c) \/ Settle(c) \/ Abandon(c)
    PROVE  Typed'
<1> DEFINE id == req[c].offer
<1>1. pc[c] # "idle" /\ UNCHANGED <<catalogue, req>>
  BY DEF Mark, Recheck, Settle, Abandon, table
<1>2. pc[c] \in {"mark", "recheck"} =>
        id \in OfferIds /\ offers[id] \in OfferRow
  BY DEF Typed, CallShape, ShapeOf, TypeOK, SubmitRequest
<1>3. pc[c] = "settle" =>
        id \in OfferIds /\ offers[id] \in OfferRow /\ req[c].actor \in Users
  BY DEF Typed, CallShape, ShapeOf, TypeOK, DecideRequest
<1>4. CASE Mark(c)
  <2>1. CASE Submittable(offers[id]) /\ Acknowledge(c, id)
    <3>1. [offers[id] EXCEPT !.status = "pending_approval"] \in OfferRow
      BY <1>2, <1>4, RowUpdates, NoneAssumption DEF Mark, Statuses
    <3>2. offers' = [offers EXCEPT ![id] = [offers[id] EXCEPT !.status = "pending_approval"]]
      BY <1>4, <2>1 DEF Mark
    <3> QED
      BY <1>1, <1>2, <1>4, <2>1, <3>1, <3>2, RowWriteTyped DEF Mark
  <2>2. CASE ~Submittable(offers[id])
    BY <1>1, <1>4, <2>2, VerdictReadTyped DEF Mark, Results
  <2> QED
    BY <1>4, <2>1, <2>2 DEF Mark
<1>5. CASE Recheck(c)
  <2>1. id \in OfferIds /\ pc[c] # "mark" /\ UNCHANGED offers
    BY <1>2, <1>5 DEF Recheck, table
  <2> QED
    BY <1>1, <1>5, <2>1, VerdictReadTyped DEF Recheck, Results
<1>6. CASE Settle(c)
  <2>1. CASE Decidable(offers[id])
    <3>1. Decided(offers[id], req[c].actor, req[c].approve) \in OfferRow
      BY <1>3, <1>6, RowUpdates DEF Settle, Decided, Statuses
    <3> QED
      BY <1>1, <1>3, <1>6, <2>1, <3>1, RowWriteTyped DEF Settle
  <2>2. CASE ~Decidable(offers[id])
    BY <1>1, <1>6, <2>2, VerdictReadTyped DEF Settle, Results
  <2> QED
    BY <1>6, <2>1, <2>2 DEF Settle
<1>7. CASE Abandon(c)
  BY <1>1, <1>7, VerdictReadTyped DEF Abandon, Results, table
<1> QED
  BY <1>4, <1>5, <1>6, <1>7

LEMMA CatalogueTyped ==
    ASSUME Typed, CatalogueStep
    PROVE  Typed'
<1> USE DEF Typed
<1>1. UNCHANGED <<offers, pc, req, work, reply>>
  BY DEF CatalogueStep, PublishPolicy, UpdateApartment, UpdateUnit, table
<1>2. /\ limit' \in [Buildings -> [StaffRoles -> Limits \cup {None}]]
      /\ apartment' \in [Apartments -> ApartmentRow]
      /\ unit' \in [Units -> UnitRow]
      /\ ceiling' = ceiling \/ ceiling' = Raised(limit', apartment')
  <2>1. ASSUME NEW b \in Buildings, NEW r \in StaffRoles, NEW m \in Limits,
               PublishPolicy(b, r, m)
        PROVE  <1>2
    BY <2>1 DEF PublishPolicy, TypeOK
  <2>2. ASSUME NEW a \in Apartments, NEW row \in ApartmentRow, UpdateApartment(a, row)
        PROVE  <1>2
    BY <2>2 DEF UpdateApartment, TypeOK
  <2>3. ASSUME NEW u \in Units, NEW row \in UnitRow, UpdateUnit(u, row)
        PROVE  <1>2
    BY <2>3 DEF UpdateUnit, TypeOK
  <2> QED
    BY <2>1, <2>2, <2>3 DEF CatalogueStep
<1>3. ASSUME NEW a \in Apartments, NEW r \in StaffRoles
      PROVE  MaxDiscount(limit', apartment'[a].building, r) \in BasisPoints
  <2>1. apartment'[a].building \in Buildings
    BY <1>2, <1>3 DEF ApartmentRow
  <2> QED
    BY <1>2, <1>3, <2>1, MaxDiscountRange
<1>4. ceiling' \in [Apartments -> [StaffRoles -> BasisPoints]]
  <2>1. CASE ceiling' = ceiling
    BY <2>1 DEF TypeOK
  <2>2. CASE ceiling' = Raised(limit', apartment')
    BY <1>3, <2>2, Zenon DEF Raised, TypeOK
  <2> QED
    BY <1>2, <2>1, <2>2
<1>5. TypeOK'
  BY <1>1, <1>2, <1>4 DEF TypeOK
<1>6. CallShape'
  BY <1>1 DEF CallShape, ShapeOf
<1> QED
  BY <1>5, <1>6

LEMMA TypedNext == Typed /\ [Next]_vars => Typed'
<1> SUFFICES ASSUME Typed, [Next]_vars PROVE Typed'
  OBVIOUS
<1>1. ASSUME NEW c \in Calls, CreateStep(c) PROVE Typed'
  BY <1>1, ReadLimitTyped, ReadPriceTyped, ReadUnitTyped, LookupTyped, SnapshotTyped,
     InsertTyped DEF CreateStep
<1>2. ASSUME NEW c \in Calls, VerdictStep(c) \/ Abandon(c) PROVE Typed'
  BY <1>2, ReadOfferTyped, ReadForDecisionTyped, VerdictTyped DEF VerdictStep
<1>3. CASE CatalogueStep
  BY <1>3, CatalogueTyped
<1>4. CASE UNCHANGED vars
  BY <1>4 DEF vars, Typed, TypeOK, CallShape, ShapeOf
<1> QED
  BY <1>1, <1>2, <1>3, <1>4 DEF Next

(***************************************************************************)
(* Type correctness, with the shape of every call in flight.               *)
(***************************************************************************)
THEOREM TypeCorrect == Spec => [](TypeOK /\ CallShape)
<1>1. Spec => []Typed
  BY TypedInit, TypedNext, PTL DEF Spec
<1> QED
  BY <1>1, PTL DEF Typed
-----------------------------------------------------------------------------
(***************************************************************************)
(* The three ways the table changes.  Every other step leaves it alone.    *)
(***************************************************************************)
Published(c, id) ==
    /\ pc[c] = "insert" /\ id \in OfferIds \ Rows
    /\ WithKey(req[c].key) = {} /\ ~VersionTaken(req[c].deal, work[c].version)
    /\ offers' = [offers EXCEPT ![id] = NewRow(c)]
    /\ Acknowledge(c, id) /\ UNCHANGED <<catalogue, req>>

Marked(c) == pc[c] = "mark" /\ Mark(c) /\ Submittable(offers[req[c].offer])

Settled(c) == pc[c] = "settle" /\ Settle(c) /\ Decidable(offers[req[c].offer])

LEMMA TableSteps ==
    ASSUME [Next]_vars
    PROVE  \/ UNCHANGED offers
           \/ \E c \in Calls, id \in OfferIds : Published(c, id)
           \/ \E c \in Calls : Marked(c) \/ Settled(c)
<1>1. ASSUME NEW c \in Calls, CreateStep(c)
      PROVE  UNCHANGED offers \/ \E id \in OfferIds : Published(c, id)
  BY <1>1 DEF CreateStep, ReadLimit, ReadPrice, ReadUnit, Lookup, Snapshot, Insert, table,
     Published, KeyConflict, VersionConflict
<1>2. ASSUME NEW c \in Calls, VerdictStep(c) \/ Abandon(c)
      PROVE  UNCHANGED offers \/ Marked(c) \/ Settled(c)
  BY <1>2 DEF VerdictStep, ReadOffer, ReadForDecision, Mark, Recheck, Settle, Abandon, table,
     Marked, Settled
<1>3. CASE CatalogueStep
  BY <1>3 DEF CatalogueStep, PublishPolicy, UpdateApartment, UpdateUnit, table
<1>4. CASE UNCHANGED vars
  BY <1>4 DEF vars
<1> QED
  BY <1>1, <1>2, <1>3, <1>4 DEF Next

(* What a submission or a verdict leaves in every row.                     *)
Lasting(row) == <<row.request, row.deal, row.version, row.creator, row.discount,
                row.approvalRequired, row.base, row.final, row.units>>

TermsKept ==
    /\ \A id \in OfferIds : offers'[id] = None <=> offers[id] = None
    /\ \A id \in Rows : Lasting(offers'[id]) = Lasting(offers[id])

LEMMA UpdatesKeepTerms ==
    ASSUME Typed, NEW c \in Calls, Marked(c) \/ Settled(c)
    PROVE  TermsKept
<1> DEFINE id == req[c].offer
<1>1. id \in OfferIds /\ offers[id] \in OfferRow
  BY DEF Marked, Settled, Typed, CallShape, ShapeOf, TypeOK, SubmitRequest, DecideRequest
<1>2. PICK row : /\ offers' = [offers EXCEPT ![id] = row] /\ row \in OfferRow
                 /\ Lasting(row) = Lasting(offers[id])
  <2>1. CASE Marked(c)
    <3> DEFINE row == [offers[id] EXCEPT !.status = "pending_approval"]
    <3>1. offers' = [offers EXCEPT ![id] = row]
      BY <2>1 DEF Marked, Mark
    <3>2. row \in OfferRow
      BY <1>1, RowUpdates, NoneAssumption DEF Statuses
    <3>3. Lasting(row) = Lasting(offers[id])
      BY <1>1 DEF Lasting, OfferRow
    <3> QED
      BY <3>1, <3>2, <3>3
  <2>2. CASE Settled(c)
    <3> DEFINE row == Decided(offers[id], req[c].actor, req[c].approve)
    <3>1. offers' = [offers EXCEPT ![id] = row]
      BY <2>2 DEF Settled, Settle
    <3>2. req[c].actor \in Users
      BY <2>2 DEF Settled, Typed, CallShape, ShapeOf, DecideRequest
    <3>3. row \in OfferRow
      BY <1>1, <3>2, RowUpdates DEF Decided, Statuses
    <3>4. Lasting(row) = Lasting(offers[id])
      BY <1>1 DEF Lasting, OfferRow, Decided
    <3> QED
      BY <3>1, <3>3, <3>4
  <2> QED
    BY <2>1, <2>2
<1> QED
  BY <1>1, <1>2, NoneAssumption DEF TermsKept, Rows, Typed, TypeOK
-----------------------------------------------------------------------------
(***************************************************************************)
(* Idempotency.  Inductively: keys are unique in the table, and every      *)
(* successful create was answered with a row that carries its key.         *)
(***************************************************************************)
KeysUnique == \A i, j \in Rows : offers[i].request = offers[j].request => i = j

RepliesNameKey ==
    \A c \in Calls : Succeeded(c, "create") => reply[c].offer \in WithKey(req[c].key)

KeyInv == KeysUnique /\ RepliesNameKey

LEMMA KeysUniqueNext == Typed /\ KeysUnique /\ [Next]_vars => KeysUnique'
<1> SUFFICES ASSUME Typed, KeysUnique, [Next]_vars PROVE KeysUnique'
  OBVIOUS
<1>1. CASE UNCHANGED offers
  BY <1>1 DEF KeysUnique, Rows
<1>2. ASSUME NEW c \in Calls, NEW id \in OfferIds, Published(c, id) PROVE KeysUnique'
  BY <1>2 DEF Published, NewRow, KeysUnique, WithKey, Rows, Typed, TypeOK
<1>3. ASSUME NEW c \in Calls, Marked(c) \/ Settled(c) PROVE KeysUnique'
  BY <1>3, UpdatesKeepTerms DEF TermsKept, Lasting, KeysUnique, Rows
<1> QED
  BY <1>1, <1>2, <1>3, TableSteps

(* A step moves one call and leaves every other call as it was.            *)
Kept(d) == /\ pc'[d] = pc[d] /\ req'[d] = req[d]
           /\ work'[d] = work[d] /\ reply'[d] = reply[d]

LEMMA CallSteps ==
    ASSUME Typed, [Next]_vars, NEW d \in Calls
    PROVE  Kept(d) \/ CreateStep(d) \/ VerdictStep(d) \/ Abandon(d)
<1> USE DEF Typed, TypeOK
<1>1. ASSUME NEW c \in Calls \ {d}, NEW res, NEW id, Answer(c, res, id)
      PROVE  pc'[d] = pc[d] /\ work'[d] = work[d] /\ reply'[d] = reply[d]
  BY <1>1 DEF Answer, Goto
<1>2. ASSUME NEW c \in Calls \ {d}, NEW step, NEW w, Continue(c, step, w)
      PROVE  pc'[d] = pc[d] /\ work'[d] = work[d] /\ reply'[d] = reply[d]
  BY <1>2 DEF Continue, Goto
<1>3. ASSUME NEW c \in Calls \ {d}, CreateStep(c) PROVE Kept(d)
  <2>1. ASSUME NEW r \in Requests, ReadLimit(c, r) PROVE Kept(d)
    BY <1>1, <1>2, <2>1 DEF ReadLimit, Kept
  <2>2. CASE ReadPrice(c)
    BY <1>1, <1>2, <2>2 DEF ReadPrice, Kept
  <2>3. CASE ReadUnit(c, "parking", "storage") \/ ReadUnit(c, "storage", "lookup")
    BY <1>1, <1>2, <2>3 DEF ReadUnit, Kept
  <2>4. CASE Lookup(c)
    BY <1>1, <1>2, <2>4 DEF Lookup, Kept
  <2>5. CASE Snapshot(c)
    BY <1>1, <1>2, <2>5 DEF Snapshot, Kept
  <2>6. CASE Insert(c)
    BY <1>1, <1>2, <2>6 DEF Insert, Acknowledge, Kept
  <2> QED
    BY <1>3, <2>1, <2>2, <2>3, <2>4, <2>5, <2>6 DEF CreateStep
<1>4. ASSUME NEW c \in Calls \ {d}, VerdictStep(c) \/ Abandon(c) PROVE Kept(d)
  <2>1. ASSUME NEW r \in Requests, ReadOffer(c, r) \/ ReadForDecision(c, r) PROVE Kept(d)
    BY <1>1, <1>2, <2>1 DEF ReadOffer, ReadForDecision, Kept
  <2>2. CASE Mark(c) \/ Recheck(c) \/ Settle(c) \/ Abandon(c)
    BY <1>1, <1>2, <2>2 DEF Mark, Recheck, Settle, Abandon, Acknowledge, Kept
  <2> QED
    BY <1>4, <2>1, <2>2 DEF VerdictStep
<1>5. CASE CatalogueStep
  BY <1>5 DEF CatalogueStep, PublishPolicy, UpdateApartment, UpdateUnit, Kept
<1>6. CASE UNCHANGED vars
  BY <1>6 DEF vars, Kept
<1> QED
  BY <1>3, <1>4, <1>5, <1>6 DEF Next

(* A row stays, with its terms.                                            *)
LEMMA RowsStay ==
    ASSUME Typed, [Next]_vars, NEW id \in Rows
    PROVE  offers'[id] # None /\ Lasting(offers'[id]) = Lasting(offers[id])
<1>1. CASE UNCHANGED offers
  BY <1>1 DEF Rows
<1>2. ASSUME NEW c \in Calls, NEW i \in OfferIds, Published(c, i)
      PROVE  offers'[id] = offers[id]
  BY <1>2 DEF Published, Rows, Typed, TypeOK
<1>3. ASSUME NEW c \in Calls, Marked(c) \/ Settled(c)
      PROVE  offers'[id] # None /\ Lasting(offers'[id]) = Lasting(offers[id])
  BY <1>3, UpdatesKeepTerms DEF TermsKept, Rows
<1> QED
  BY <1>1, <1>2, <1>3, TableSteps DEF Rows

(* Only the lookup and the INSERT tell a create that it succeeded.         *)
LEMMA CreateSucceeds ==
    ASSUME Typed, NEW d \in Calls, CreateStep(d) \/ VerdictStep(d) \/ Abandon(d),
           Succeeded(d, "create")'
    PROVE  /\ req'[d] = req[d]
           /\ \/ UNCHANGED offers /\ reply'[d].offer \in WithKey(req[d].key)
              \/ \E id \in OfferIds : reply'[d].offer = id /\ Published(d, id)
<1> USE DEF Typed, TypeOK
<1>1. ASSUME NEW res, NEW id, Answer(d, res, id)
      PROVE  pc'[d] = "done" /\ reply'[d].result = res /\ reply'[d].offer = id
  BY <1>1 DEF Answer, Goto
<1>2. ASSUME NEW step, NEW w, Continue(d, step, w) PROVE pc'[d] = step
  BY <1>2 DEF Continue, Goto
<1>3. pc'[d] = "done" /\ req'[d].op = "create" /\ reply'[d].result = "ok"
  BY DEF Succeeded
<1>4. ASSUME NEW r \in Requests, ReadLimit(d, r) PROVE FALSE
  BY <1>1, <1>2, <1>3, <1>4 DEF ReadLimit
<1>5. CASE ReadPrice(d) \/ Abandon(d)
  BY <1>1, <1>2, <1>3, <1>5 DEF ReadPrice, Abandon
<1>6. CASE Snapshot(d)
  BY <1>2, <1>3, <1>6 DEF Snapshot
<1>7. CASE ReadUnit(d, "parking", "storage") \/ ReadUnit(d, "storage", "lookup")
  BY <1>1, <1>2, <1>3, <1>7 DEF ReadUnit
<1>8. ASSUME NEW r \in Requests, ReadOffer(d, r) \/ ReadForDecision(d, r) PROVE FALSE
  BY <1>3, <1>8 DEF ReadOffer, ReadForDecision
<1>9. CASE Mark(d) \/ Recheck(d) \/ Settle(d)
  BY <1>3, <1>9 DEF Mark, Recheck, Settle, CallShape, ShapeOf, SubmitRequest, DecideRequest
<1>10. CASE Lookup(d)
  BY <1>1, <1>2, <1>3, <1>10 DEF Lookup, table
<1>11. CASE Insert(d)
  BY <1>1, <1>3, <1>11 DEF Insert, Acknowledge, Published, KeyConflict, VersionConflict
<1> QED
  BY <1>4, <1>5, <1>6, <1>7, <1>8, <1>9, <1>10, <1>11 DEF CreateStep, VerdictStep

LEMMA RepliesNameKeyNext == Typed /\ KeyInv /\ [Next]_vars => RepliesNameKey'
<1> SUFFICES ASSUME Typed, KeyInv, [Next]_vars, NEW d \in Calls, Succeeded(d, "create")'
             PROVE  (reply[d].offer \in WithKey(req[d].key))'
  BY DEF RepliesNameKey
<1>1. CASE Kept(d)
  BY <1>1, RowsStay DEF Kept, KeyInv, RepliesNameKey, Succeeded, WithKey, Rows, Lasting
<1>2. CASE CreateStep(d) \/ VerdictStep(d) \/ Abandon(d)
  <2>1. CASE UNCHANGED offers /\ reply'[d].offer \in WithKey(req[d].key)
    BY <1>2, <2>1, CreateSucceeds DEF WithKey, Rows
  <2>2. ASSUME NEW id \in OfferIds, reply'[d].offer = id, Published(d, id)
        PROVE  (reply[d].offer \in WithKey(req[d].key))'
    <3>1. NewRow(d) # None /\ NewRow(d).request = req[d].key
      BY <2>2, NewRowTyped, NoneAssumption DEF Published, NewRow
    <3>2. offers'[id] = NewRow(d) /\ req'[d] = req[d]
      BY <1>2, <2>2, CreateSucceeds DEF Published, Typed, TypeOK
    <3> QED
      BY <2>2, <3>1, <3>2 DEF WithKey, Rows
  <2> QED
    BY <1>2, <2>1, <2>2, CreateSucceeds
<1> QED
  BY <1>1, <1>2, CallSteps

(***************************************************************************)
(* However calls with one key interleave, all that succeed are answered    *)
(* with the one offer that carries the key.                                *)
(***************************************************************************)
THEOREM CreateIsIdempotent == Spec => []IdempotentCreate
<1>1. Init => KeyInv
  BY DEF Init, KeyInv, KeysUnique, RepliesNameKey, Rows, Succeeded
<1>2. Typed /\ KeyInv /\ [Next]_vars => KeyInv'
  BY KeysUniqueNext, RepliesNameKeyNext DEF KeyInv
<1>3. KeyInv => IdempotentCreate
  BY DEF KeyInv, KeysUnique, RepliesNameKey, IdempotentCreate, WithKey
<1> QED
  BY <1>1, <1>2, <1>3, TypedInit, TypedNext, PTL DEF Spec
-----------------------------------------------------------------------------
(***************************************************************************)
(* Versions.  A snapshot may be stale when its INSERT runs, but it was     *)
(* dense when taken and rows are never deleted, so all versions below the  *)
(* one it computed are still there; the unique index refuses a repetition. *)
(***************************************************************************)
SnapshotIsDense ==
    \A c \in Calls : pc[c] = "insert" =>
        /\ work[c].version >= 1
        /\ \A v \in 1..(work[c].version - 1) : VersionTaken(req[c].deal, v)

VersionInv == VersionsAreARun /\ SnapshotIsDense

LEMMA VersionsStay ==
    ASSUME Typed, [Next]_vars
    PROVE  \A x, v : VersionTaken(x, v) => VersionTaken(x, v)'
BY RowsStay DEF VersionTaken, OffersOf, Rows, Lasting

(* The only way to an INSERT is through its snapshot.                      *)
LEMMA OnlySnapshotInserts ==
    ASSUME Typed, NEW d \in Calls, CreateStep(d) \/ VerdictStep(d) \/ Abandon(d),
           pc'[d] = "insert"
    PROVE  Snapshot(d)
<1> USE DEF Typed, TypeOK
<1>1. ASSUME NEW res, NEW id, Answer(d, res, id) PROVE FALSE
  BY <1>1 DEF Answer, Goto
<1>2. ASSUME NEW step, NEW w, Continue(d, step, w) PROVE step = "insert"
  BY <1>2 DEF Continue, Goto
<1>3. CASE CreateStep(d)
  BY <1>1, <1>2, <1>3 DEF CreateStep, ReadLimit, ReadPrice, ReadUnit, Lookup, Insert,
     Acknowledge
<1>4. CASE VerdictStep(d) \/ Abandon(d)
  BY <1>1, <1>2, <1>4 DEF VerdictStep, ReadOffer, ReadForDecision, Mark, Recheck, Settle, Abandon,
     Acknowledge
<1> QED
  BY <1>3, <1>4

LEMMA SnapshotIsDenseNext == Typed /\ VersionInv /\ [Next]_vars => SnapshotIsDense'
<1> SUFFICES ASSUME Typed, VersionInv, [Next]_vars, NEW d \in Calls, pc'[d] = "insert"
             PROVE  /\ work'[d].version >= 1
                    /\ \A v \in 1..(work'[d].version - 1) : VersionTaken(req[d].deal, v)'
  BY DEF SnapshotIsDense
<1>1. CASE Kept(d)
  BY <1>1, VersionsStay DEF Kept, VersionInv, SnapshotIsDense, VersionTaken, OffersOf, Rows
<1>2. CASE Snapshot(d)
  <2>1. /\ UNCHANGED <<offers, req>>
        /\ req[d].deal = req'[d].deal
    BY <1>2 DEF Snapshot, table
  <2>2. PICK v \in {offers[id].version : id \in OffersOf(req[d].deal)} \cup {0} :
             Continue(d, "insert", [work[d] EXCEPT !.version = v + 1])
    BY <1>2 DEF Snapshot
  <2>3. v \in Nat /\ \A x \in 1..v : VersionTaken(req[d].deal, x)
    <3>1. CASE v = 0
      BY <3>1
    <3>2. ASSUME NEW id \in OffersOf(req[d].deal), v = offers[id].version
          PROVE  <2>3
      BY <3>2 DEF VersionInv, VersionsAreARun, OffersOf, Rows, OfferRow, Typed, TypeOK
    <3> QED
      BY <2>2, <3>1, <3>2
  <2>4. work'[d].version = v + 1
    BY <2>2 DEF Continue, Typed, TypeOK, Work
  <2> QED
    BY <2>1, <2>3, <2>4 DEF VersionTaken, OffersOf, Rows
<1> QED
  BY <1>1, <1>2, CallSteps, OnlySnapshotInserts

LEMMA VersionsAreARunNext == Typed /\ VersionInv /\ [Next]_vars => VersionsAreARun'
<1> SUFFICES ASSUME Typed, VersionInv, [Next]_vars PROVE VersionsAreARun'
  OBVIOUS
<1> USE DEF VersionsAreARun, VersionTaken, OffersOf, Rows
<1>1. CASE UNCHANGED offers
  BY <1>1 DEF VersionInv
<1>2. ASSUME NEW c \in Calls, NEW id \in OfferIds, Published(c, id) PROVE VersionsAreARun'
  <2> DEFINE row == NewRow(c)
  <2>1. row \in OfferRow /\ row.deal = req[c].deal /\ row.version = work[c].version
    BY <1>2, NewRowTyped DEF Published, NewRow
  <2>2. row # None /\ row.version \in Nat
    BY <2>1, NoneAssumption DEF OfferRow
  <2>3. /\ offers'[id] = row /\ offers[id] = None
        /\ \A i \in OfferIds : i # id => offers'[i] = offers[i]
    BY <1>2 DEF Published, Typed, TypeOK
  <2>4. /\ row.version >= 1
        /\ \A v \in 1..(row.version - 1) : VersionTaken(row.deal, v)
        /\ ~VersionTaken(row.deal, row.version)
    BY <1>2, <2>1 DEF Published, VersionInv, SnapshotIsDense
  <2> HIDE DEF row
  <2>5. ASSUME NEW x, NEW v, VersionTaken(x, v) PROVE VersionTaken(x, v)'
    BY <2>3, <2>5
  <2>6. ASSUME NEW i \in Rows'
        PROVE  /\ offers'[i].version >= 1
               /\ \A v \in 1..offers'[i].version : VersionTaken(offers[i].deal, v)'
               /\ \A j \in OffersOf(offers[i].deal)' :
                     offers'[j].version = offers'[i].version => i = j
    <3>1. CASE i = id
      BY <2>2, <2>3, <2>4, <2>5, <3>1
    <3>2. CASE i # id
      BY <2>2, <2>3, <2>4, <2>5, <3>2 DEF VersionInv
    <3> QED
      BY <3>1, <3>2
  <2> QED
    BY <2>6
<1>3. ASSUME NEW c \in Calls, Marked(c) \/ Settled(c) PROVE VersionsAreARun'
  BY <1>3, UpdatesKeepTerms DEF TermsKept, Lasting, VersionInv
<1> QED
  BY <1>1, <1>2, <1>3, TableSteps

(***************************************************************************)
(* The versions of a deal's offers are 1, 2, 3, ... without gap or         *)
(* repetition, for any number of concurrent creates.                       *)
(***************************************************************************)
THEOREM VersionsNeverSkip == Spec => []VersionsAreARun
<1>1. Init => VersionInv
  BY DEF Init, VersionInv, VersionsAreARun, SnapshotIsDense, Rows
<1>2. Typed /\ VersionInv /\ [Next]_vars => VersionInv'
  BY SnapshotIsDenseNext, VersionsAreARunNext DEF VersionInv
<1>3. VersionInv => VersionsAreARun
  BY DEF VersionInv
<1> QED
  BY <1>1, <1>2, <1>3, TypedInit, TypedNext, PTL DEF Spec
-----------------------------------------------------------------------------
(***************************************************************************)
(* Sanctioned approvals.  The ceiling of an apartment covers the limits in *)
(* force and never sinks; so a discount that was within a limit when a     *)
(* call read it stays within the ceiling until its row is stored, and for  *)
(* ever after.                                                             *)
(***************************************************************************)
Within(d, u, x) == Role[u] \in StaffRoles /\ x <= ceiling[DealApartment[d]][Role[u]]

CeilingCovers ==
    \A a \in Apartments, r \in StaffRoles :
        MaxDiscount(limit, apartment[a].building, r) <= ceiling[a][r]

CallSanctioned(c) ==
    pc[c] \in CreateSteps /\ ~work[c].approval =>
        Within(req[c].deal, req[c].actor, req[c].discount)

RowSanctioned(id) ==
    offers[id].status = "approved" =>
        \/ Within(offers[id].deal, offers[id].creator, offers[id].discount)
        \/ offers[id].approvedBy # None /\ Role[offers[id].approvedBy] = "supervisor"

SanctionInv ==
    /\ CeilingCovers
    /\ \A c \in Calls : CallSanctioned(c)
    /\ \A id \in Rows : RowSanctioned(id)

CeilingGrows ==
    \A a \in Apartments, r \in StaffRoles : ceiling[a][r] <= ceiling'[a][r]

LEMMA CeilingNext ==
    ASSUME Typed, CeilingCovers, [Next]_vars
    PROVE  CeilingGrows /\ CeilingCovers'
<1> DEFINE m(a, r) == MaxDiscount(limit', apartment'[a].building, r)
<1>1. Typed'
  BY TypedNext
<1>2. ASSUME NEW a \in Apartments, NEW r \in StaffRoles
      PROVE  /\ m(a, r) \in BasisPoints
             /\ ceiling[a][r] \in BasisPoints /\ ceiling[a][r] \in Int /\ m(a, r) \in Int
  BY <1>1, <1>2, MaxDiscountRange, BasisPointsAreInts DEF Typed, TypeOK, ApartmentRow
<1>3. CASE UNCHANGED catalogue
  BY <1>2, <1>3 DEF CeilingCovers, CeilingGrows, catalogue
<1>4. CASE UNCHANGED <<limit, apartment, ceiling>>
  BY <1>2, <1>4 DEF CeilingCovers, CeilingGrows
<1>5. CASE ceiling' = Raised(limit', apartment')
  <2>1. ASSUME NEW a \in Apartments, NEW r \in StaffRoles
        PROVE  ceiling'[a][r] = IF m(a, r) > ceiling[a][r] THEN m(a, r) ELSE ceiling[a][r]
    BY <1>5 DEF Raised
  <2>2. ASSUME NEW a \in Apartments, NEW r \in StaffRoles
        PROVE  ceiling[a][r] <= ceiling'[a][r] /\ m(a, r) <= ceiling'[a][r]
    <3> HIDE DEF m
    <3> QED
      BY <1>2, <2>1
  <2> QED
    BY <2>2 DEF CeilingCovers, CeilingGrows
<1>6. CASE CatalogueStep
  BY <1>4, <1>5, <1>6 DEF CatalogueStep, PublishPolicy, UpdateApartment, UpdateUnit
<1>7. CASE \E c \in Calls : CreateStep(c) \/ VerdictStep(c) \/ Abandon(c)
  BY <1>3, <1>7 DEF CreateStep, ReadLimit, ReadPrice, ReadUnit, Lookup, Snapshot, Insert,
     VerdictStep, ReadOffer, ReadForDecision, Mark, Recheck, Settle, Abandon
<1>8. CASE UNCHANGED vars
  BY <1>3, <1>8 DEF vars, catalogue
<1> QED
  BY <1>6, <1>7, <1>8 DEF Next

LEMMA WithinStays ==
    ASSUME Typed, CeilingGrows, [Next]_vars, NEW d \in Deals, NEW u, NEW x \in Int,
           Within(d, u, x)
    PROVE  Within(d, u, x)'
<1>1. Typed'
  BY TypedNext
<1> DEFINE a == DealApartment[d]
<1>2. a \in Apartments /\ Role[u] \in StaffRoles /\ x <= ceiling[a][Role[u]]
  BY DealsAssumption DEF Within
<1>3. ceiling[a][Role[u]] \in Int /\ ceiling'[a][Role[u]] \in Int
  BY <1>1, <1>2, BasisPointsAreInts DEF Typed, TypeOK
<1>4. ceiling[a][Role[u]] <= ceiling'[a][Role[u]]
  BY <1>2 DEF CeilingGrows
<1> QED
  BY <1>2, <1>3, <1>4 DEF Within
(* A step of the call itself: the verdict on the limit is made once and    *)
(* carried along.                                                          *)
LEMMA OwnSanction ==
    ASSUME Typed, CeilingCovers, NEW d \in Calls, CallSanctioned(d),
           CreateStep(d) \/ VerdictStep(d) \/ Abandon(d),
           pc'[d] \in CreateSteps, ~work'[d].approval
    PROVE  /\ UNCHANGED ceiling
           /\ req'[d].deal \in Deals /\ req'[d].discount \in Int
           /\ Role[req'[d].actor] \in StaffRoles
           /\ req'[d].discount
                <= ceiling[DealApartment[req'[d].deal]][Role[req'[d].actor]]
<1> USE DEF Typed, TypeOK
<1>1. ASSUME NEW res, NEW id, Answer(d, res, id) PROVE FALSE
  BY <1>1 DEF Answer, Goto, CreateSteps
<1>2. ASSUME NEW step, NEW w, Continue(d, step, w) PROVE work'[d] = w /\ pc'[d] = step
  BY <1>2 DEF Continue, Goto
<1>3. ASSUME NEW r \in Requests, ReadLimit(d, r)
      PROVE  /\ UNCHANGED ceiling /\ req'[d] = r /\ r \in CreateRequest
             /\ r.discount \in BasisPoints
             /\ Role[r.actor] \in StaffRoles
             /\ r.discount <= ceiling[DealApartment[r.deal]][Role[r.actor]]
  <2> DEFINE a == DealApartment[r.deal]
             max == MaxDiscount(limit, apartment[a].building, Role[r.actor])
  <2>1. /\ r \in CreateRequest /\ req'[d] = r /\ UNCHANGED ceiling
        /\ r.discount \in BasisPoints /\ MayOffer(r.actor, r.deal)
        /\ Continue(d, "price", [Blank EXCEPT !.approval = Exceeds(r.discount, max)])
    BY <1>1, <1>3, RequestKinds DEF ReadLimit, catalogue
  <2>2. Role[r.actor] \in StaffRoles /\ a \in Apartments /\ apartment[a].building \in Buildings
    BY <2>1, DealsAssumption DEF MayOffer, StaffRoles, CreateRequest, ApartmentRow
  <2>3. work'[d].approval = Exceeds(r.discount, max)
    BY <1>2, <2>1 DEF Blank
  <2>4. max \in Int /\ ceiling[a][Role[r.actor]] \in Int /\ r.discount \in Int
    BY <2>1, <2>2, MaxDiscountRange, BasisPointsAreInts
  <2>5. max <= ceiling[a][Role[r.actor]]
    BY <2>2 DEF CeilingCovers
  <2> HIDE DEF max
  <2>6. r.discount <= max
    <3>1. ~Exceeds(r.discount, max)
      BY <2>3, Zenon
    <3> QED
      BY <2>4, <3>1 DEF Exceeds
  <2> QED
    BY <2>1, <2>2, <2>4, <2>5, <2>6
<1>4. ASSUME pc[d] \in CreateSteps, req'[d] = req[d], UNCHANGED ceiling,
             work'[d].approval = work[d].approval
      PROVE  /\ UNCHANGED ceiling
             /\ req'[d].deal \in Deals /\ req'[d].discount \in Int
             /\ Role[req'[d].actor] \in StaffRoles
             /\ req'[d].discount
                  <= ceiling[DealApartment[req'[d].deal]][Role[req'[d].actor]]
  <2>1. req[d] \in CreateRequest /\ req[d].discount \in BasisPoints
    BY <1>4, CreateShape
  <2>2. ~work[d].approval
    BY <1>4, Zenon
  <2>3. Within(req[d].deal, req[d].actor, req[d].discount)
    BY <1>4, <2>2 DEF CallSanctioned
  <2> QED
    BY <1>4, <2>1, <2>3, BasisPointsAreInts DEF Within, CreateRequest
<1>5. CASE ReadPrice(d)
  <2>1. /\ pc[d] = "price" /\ req'[d] = req[d] /\ UNCHANGED ceiling
    BY <1>5 DEF ReadPrice, catalogue
  <2>2. ASSUME NEW w \in Work, NEW x, NEW y
        PROVE  [w EXCEPT !.base = x, !.building = y].approval = w.approval
    BY <2>2 DEF Work
  <2> DEFINE a == apartment[DealApartment[req[d].deal]]
  <2>3. work'[d] = [work[d] EXCEPT !.base = a.price, !.building = a.building]
    BY <1>1, <1>2, <1>5, Zenon DEF ReadPrice
  <2>4. work'[d].approval = work[d].approval
    BY <2>2, <2>3
  <2> QED
    BY <1>4, <2>1, <2>4 DEF CreateSteps
<1>6. ASSUME NEW kind \in {"parking", "storage"}, NEW next, ReadUnit(d, kind, next)
      PROVE  /\ pc[d] = kind /\ req'[d] = req[d] /\ UNCHANGED ceiling
             /\ work'[d].approval = work[d].approval
  BY <1>1, <1>2, <1>6 DEF ReadUnit, catalogue, Work
<1>7. CASE Lookup(d)
  <2>1. pc[d] = "lookup" /\ req'[d] = req[d] /\ UNCHANGED ceiling
    BY <1>7 DEF Lookup, catalogue
  <2>2. work'[d].approval = work[d].approval
    BY <1>1, <1>2, <1>7 DEF Lookup
  <2> QED
    BY <1>4, <2>1, <2>2 DEF CreateSteps
<1>8. CASE Snapshot(d)
  <2>1. pc[d] = "snapshot" /\ req'[d] = req[d] /\ UNCHANGED ceiling
    BY <1>8 DEF Snapshot, catalogue
  <2>2. work'[d].approval = work[d].approval
    BY <1>1, <1>2, <1>8 DEF Snapshot, Work
  <2> QED
    BY <1>4, <2>1, <2>2 DEF CreateSteps
<1>9. CASE Insert(d) \/ Abandon(d)
  BY <1>1, <1>9 DEF Insert, Acknowledge, Abandon
<1>10. CASE VerdictStep(d)
  BY <1>1, <1>2, <1>10 DEF VerdictStep, ReadOffer, ReadForDecision, Mark, Recheck, Settle,
     Acknowledge, CreateSteps
<1>11. ASSUME NEW r \in Requests, ReadLimit(d, r)
       PROVE  req'[d].deal \in Deals /\ req'[d].discount \in Int
  BY <1>3, <1>11, BasisPointsAreInts DEF CreateRequest
<1>12. CASE ReadUnit(d, "parking", "storage") \/ ReadUnit(d, "storage", "lookup")
  BY <1>4, <1>6, <1>12 DEF CreateSteps
<1> QED
  BY <1>3, <1>5, <1>7, <1>8, <1>9, <1>10, <1>11, <1>12 DEF CreateStep

LEMMA CallSanctionedNext ==
    ASSUME Typed, SanctionInv, [Next]_vars, NEW d \in Calls
    PROVE  CallSanctioned(d)'
<1> SUFFICES ASSUME pc'[d] \in CreateSteps, ~work'[d].approval
             PROVE  Within(req[d].deal, req[d].actor, req[d].discount)'
  BY DEF CallSanctioned
<1>1. CASE Kept(d)
  <2>1. Within(req[d].deal, req[d].actor, req[d].discount) /\ req'[d] = req[d]
    BY <1>1 DEF Kept, SanctionInv, CallSanctioned
  <2>2. req[d].deal \in Deals /\ req[d].discount \in Int
    BY <1>1, CreateShape, BasisPointsAreInts DEF Kept, CreateRequest
  <2>3. CeilingGrows
    BY CeilingNext DEF SanctionInv
  <2>4. Within(req[d].deal, req[d].actor, req[d].discount)
           => /\ Role[req[d].actor] \in StaffRoles
              /\ req[d].discount <= ceiling'[DealApartment[req[d].deal]][Role[req[d].actor]]
    BY <2>2, <2>3, WithinStays DEF Within
  <2> QED
    BY <2>1, <2>4 DEF Within
<1>2. CASE CreateStep(d) \/ VerdictStep(d) \/ Abandon(d)
  BY <1>2, OwnSanction DEF SanctionInv, Within
<1> QED
  BY <1>1, <1>2, CallSteps

LEMMA RowSanctionedNext ==
    ASSUME Typed, SanctionInv, [Next]_vars, NEW id \in Rows'
    PROVE  RowSanctioned(id)'
<1>1. CeilingGrows
  BY CeilingNext DEF SanctionInv
<1>2. ASSUME id \in Rows, offers'[id] = offers[id]
      PROVE  RowSanctioned(id)'
  <2>1. offers[id].deal \in Deals /\ offers[id].discount \in Int
    BY <1>2, BasisPointsAreInts DEF Typed, TypeOK, Rows, OfferRow
  <2>2. Within(offers[id].deal, offers[id].creator, offers[id].discount)
           => /\ Role[offers[id].creator] \in StaffRoles
              /\ offers[id].discount
                   <= ceiling'[DealApartment[offers[id].deal]][Role[offers[id].creator]]
    BY <1>1, <2>1, WithinStays DEF Within
  <2>3. RowSanctioned(id)
    BY <1>2 DEF SanctionInv
  <2> QED
    BY <1>2, <2>2, <2>3 DEF RowSanctioned, Within
<1>3. CASE UNCHANGED offers
  BY <1>2, <1>3 DEF Rows
<1>4. ASSUME NEW c \in Calls, NEW i \in OfferIds, Published(c, i) PROVE RowSanctioned(id)'
  <2>1. CASE id # i
    <3>1. id \in Rows /\ offers'[id] = offers[id]
      BY <1>4, <2>1 DEF Published, Rows, Typed, TypeOK
    <3> QED
      BY <1>2, <3>1
  <2>2. CASE id = i
    <3>1. offers'[id] = NewRow(c) /\ UNCHANGED ceiling /\ pc[c] \in CreateSteps
      BY <1>4, <2>2 DEF Published, Typed, TypeOK, catalogue, CreateSteps
    <3>2. offers'[id].status = "approved" => ~work[c].approval
      BY <3>1 DEF NewRow, BirthStatus
    <3>3. offers'[id].status = "approved" => Within(req[c].deal, req[c].actor, req[c].discount)
      BY <3>1, <3>2 DEF SanctionInv, CallSanctioned
    <3> QED
      BY <3>1, <3>3 DEF RowSanctioned, Within, NewRow
  <2> QED
    BY <2>1, <2>2
<1>5. ASSUME NEW c \in Calls, Marked(c) \/ Settled(c) PROVE RowSanctioned(id)'
  <2> DEFINE o == req[c].offer
  <2>1. o \in OfferIds /\ offers[o] \in OfferRow
    BY <1>5 DEF Marked, Settled, Typed, CallShape, ShapeOf, TypeOK, SubmitRequest, DecideRequest
  <2>2. id \in Rows
    BY <1>5, UpdatesKeepTerms DEF TermsKept, Rows
  <2>3. CASE id # o
    <3>1. offers'[id] = offers[id]
      BY <1>5, <2>2, <2>3 DEF Marked, Settled, Mark, Settle, Rows, Typed, TypeOK
    <3> QED
      BY <1>2, <2>2, <3>1
  <2>4. CASE id = o /\ Marked(c)
    <3>1. offers'[id].status = "pending_approval"
      BY <2>1, <2>4 DEF Marked, Mark, Typed, TypeOK, OfferRow
    <3> QED
      BY <3>1 DEF RowSanctioned
  <2>5. CASE id = o /\ Settled(c)
    <3>1. offers'[id] = Decided(offers[id], req[c].actor, req[c].approve)
      BY <2>1, <2>5 DEF Settled, Settle, Typed, TypeOK
    <3>2. Role[req[c].actor] = "supervisor" /\ req[c].actor \in Users
      BY <2>5 DEF Settled, Typed, CallShape, ShapeOf, DecideRequest
    <3>3. offers'[id].status = "approved" => offers'[id].approvedBy = req[c].actor
      BY <2>1, <2>5, <3>1 DEF Decided, OfferRow
    <3> QED
      BY <3>2, <3>3, NoneAssumption DEF RowSanctioned
  <2> QED
    BY <1>5, <2>3, <2>4, <2>5
<1> QED
  BY <1>3, <1>4, <1>5, TableSteps

(***************************************************************************)
(* An approved offer is within a limit that was in force for its apartment *)
(* and its author's role, or a supervisor approved it, whatever happens to *)
(* policies and prices between two statements of the call that made it.    *)
(***************************************************************************)
THEOREM ApprovalsAreSanctioned == Spec => []NoUnsanctionedApproval
<1>1. Init => SanctionInv
  <2> SUFFICES ASSUME Init PROVE SanctionInv
    OBVIOUS
  <2>1. Typed
    BY TypedInit
  <2>2. ASSUME NEW a \in Apartments, NEW r \in StaffRoles
        PROVE  MaxDiscount(limit, apartment[a].building, r) <= ceiling[a][r]
    <3> DEFINE m == MaxDiscount(limit, apartment[a].building, r)
    <3>1. m \in Int
      BY <2>1, MaxDiscountRange, BasisPointsAreInts DEF Typed, TypeOK, ApartmentRow
    <3>2. ceiling[a][r] = m
      BY DEF Init
    <3> QED
      BY <3>1, <3>2
  <2>3. \A c \in Calls : CallSanctioned(c)
    BY DEF Init, CallSanctioned, CreateSteps
  <2> QED
    BY <2>2, <2>3 DEF Init, SanctionInv, CeilingCovers, Rows
<1>2. Typed /\ SanctionInv /\ [Next]_vars => SanctionInv'
  BY CeilingNext, CallSanctionedNext, RowSanctionedNext DEF SanctionInv
<1>3. SanctionInv => NoUnsanctionedApproval
  BY DEF SanctionInv, RowSanctioned, Within, NoUnsanctionedApproval
<1> QED
  BY <1>1, <1>2, <1>3, TypedInit, TypedNext, PTL DEF Spec
-----------------------------------------------------------------------------
(***************************************************************************)
(* Verdicts.  Once a row is decided nothing matches it any more, so the    *)
(* acknowledged verdict stays the only one.                                *)
(***************************************************************************)
LEMMA DecidedStays ==
    ASSUME Typed, [Next]_vars, NEW id \in Rows,
           offers[id].status \in {"approved", "rejected"}
    PROVE  offers'[id] = offers[id]
<1>1. ASSUME NEW c \in Calls, NEW i \in OfferIds, Published(c, i)
      PROVE  offers'[id] = offers[id]
  BY <1>1 DEF Published, Rows, Typed, TypeOK
<1>2. ASSUME NEW c \in Calls, Marked(c) PROVE offers'[id] = offers[id]
  <2>1. id # req[c].offer
    BY <1>2 DEF Marked, Submittable
  <2> QED
    BY <1>2, <2>1 DEF Marked, Mark, Rows, Typed, TypeOK
<1>3. ASSUME NEW c \in Calls, Settled(c) PROVE offers'[id] = offers[id]
  <2>1. id # req[c].offer
    BY <1>3 DEF Settled, Decidable
  <2> QED
    BY <1>3, <2>1 DEF Settled, Settle, Rows, Typed, TypeOK
<1> QED
  BY <1>1, <1>2, <1>3, TableSteps

Shows(row, r) ==
    IF r.approve THEN row.status = "approved" /\ row.approvedBy = r.actor
    ELSE row.status = "rejected" /\ row.rejectedBy = r.actor

VerdictInv ==
    \A c \in Calls : Succeeded(c, "decide") =>
        /\ req[c].offer \in Rows
        /\ Shows(offers[req[c].offer], req[c])
        /\ \A d \in Calls :
              Succeeded(d, "decide") /\ req[d].offer = req[c].offer => d = c

(* Only the conditional UPDATE tells a decision that it succeeded.         *)
LEMMA DecideSucceeds ==
    ASSUME Typed, NEW d \in Calls, CreateStep(d) \/ VerdictStep(d) \/ Abandon(d),
           Succeeded(d, "decide")'
    PROVE  req'[d] = req[d] /\ Settled(d)
<1> USE DEF Typed, TypeOK
<1>1. ASSUME NEW res, NEW id, Answer(d, res, id)
      PROVE  pc'[d] = "done" /\ reply'[d].result = res /\ reply'[d].offer = id
  BY <1>1 DEF Answer, Goto
<1>2. ASSUME NEW step, NEW w, Continue(d, step, w) PROVE pc'[d] = step
  BY <1>2 DEF Continue, Goto
<1>3. pc'[d] = "done" /\ req'[d].op = "decide" /\ reply'[d].result = "ok"
  BY DEF Succeeded
<1>4. ASSUME pc[d] \in CreateSteps \cup {"mark", "recheck"}, req'[d] = req[d]
      PROVE  FALSE
  BY <1>3, <1>4 DEF CallShape, ShapeOf, CreateRequest, SubmitRequest
<1>5. ASSUME CreateStep(d) PROVE FALSE
  <2>1. ASSUME NEW r \in Requests, ReadLimit(d, r) PROVE FALSE
    BY <1>3, <2>1 DEF ReadLimit
  <2> QED
    BY <1>4, <1>5, <2>1 DEF CreateStep, ReadPrice, ReadUnit, Lookup, Snapshot, Insert,
       CreateSteps
<1>6. ASSUME Mark(d) \/ Recheck(d) PROVE FALSE
  BY <1>4, <1>6 DEF Mark, Recheck
<1>7. ASSUME NEW r \in Requests, ReadOffer(d, r) PROVE FALSE
  BY <1>3, <1>7 DEF ReadOffer
<1>8. ASSUME NEW r \in Requests, ReadForDecision(d, r) PROVE FALSE
  BY <1>1, <1>2, <1>3, <1>8 DEF ReadForDecision
<1>9. ASSUME Abandon(d) PROVE FALSE
  BY <1>1, <1>3, <1>9 DEF Abandon
<1>10. CASE Settle(d)
  BY <1>1, <1>3, <1>10 DEF Settle, Settled
<1> QED
  BY <1>5, <1>6, <1>7, <1>8, <1>9, <1>10 DEF VerdictStep

LEMMA VerdictNext == Typed /\ VerdictInv /\ [Next]_vars => VerdictInv'
<1> SUFFICES ASSUME Typed, VerdictInv, [Next]_vars PROVE VerdictInv'
  OBVIOUS
<1>1. ASSUME NEW c \in Calls, Succeeded(c, "decide")'
      PROVE  /\ req'[c] = req[c]
             /\ Succeeded(c, "decide") \/ Settled(c)
  <2>1. CASE Kept(c)
    BY <1>1, <2>1 DEF Kept, Succeeded
  <2>2. CASE CreateStep(c) \/ VerdictStep(c) \/ Abandon(c)
    BY <1>1, <2>2, DecideSucceeds
  <2> QED
    BY <2>1, <2>2, CallSteps
<1>2. ASSUME NEW c \in Calls, Succeeded(c, "decide")
      PROVE  /\ req[c].offer \in Rows
             /\ offers[req[c].offer].status \in {"approved", "rejected"}
             /\ offers'[req[c].offer] = offers[req[c].offer]
             /\ req[c].offer \in Rows'
  <2>1. /\ req[c].offer \in Rows
        /\ offers[req[c].offer].status \in {"approved", "rejected"}
    BY <1>2 DEF VerdictInv, Shows
  <2> QED
    BY <2>1, DecidedStays DEF Rows
<1>3. ASSUME NEW c \in Calls, Settled(c)
      PROVE  /\ req[c].offer \in Rows /\ req[c].offer \in Rows'
             /\ offers[req[c].offer].status = "pending_approval"
             /\ Shows(offers'[req[c].offer], req[c])
  <2> DEFINE o == req[c].offer
  <2>1. o \in OfferIds /\ offers[o] \in OfferRow /\ o \in Rows
    BY <1>3 DEF Settled, Typed, CallShape, ShapeOf, TypeOK, DecideRequest, Rows
  <2>2. req[c].approve \in BOOLEAN
    BY <1>3 DEF Settled, Typed, CallShape, ShapeOf, DecideRequest
  <2>3. offers'[o] = Decided(offers[o], req[c].actor, req[c].approve)
    BY <1>3, <2>1 DEF Settled, Settle, Typed, TypeOK
  <2>4. Shows(Decided(offers[o], req[c].actor, req[c].approve), req[c])
    BY <2>1, <2>2 DEF Shows, Decided, OfferRow
  <2>5. offers[o].status = "pending_approval"
    BY <1>3 DEF Settled, Decidable
  <2>6. o \in Rows'
    BY <2>1, RowsStay DEF Rows
  <2> QED
    BY <2>1, <2>3, <2>4, <2>5, <2>6
<1>4. ASSUME NEW c \in Calls, NEW d \in Calls, Settled(c), Settled(d) PROVE c = d
  <2>1. pc[c] = "settle" /\ pc'[c] = "done" /\ pc[d] = "settle"
    BY <1>4 DEF Settled, Settle, Acknowledge, Answer, Goto, Typed, TypeOK
  <2>2. pc' = [pc EXCEPT ![d] = "done"]
    BY <1>4 DEF Settled, Settle, Acknowledge, Answer, Goto
  <2> QED
    BY <2>1, <2>2 DEF Typed, TypeOK
<1> SUFFICES ASSUME NEW c \in Calls, Succeeded(c, "decide")'
             PROVE  /\ req'[c].offer \in Rows'
                    /\ Shows(offers'[req'[c].offer], req'[c])
                    /\ \A d \in Calls :
                          Succeeded(d, "decide")' /\ req'[d].offer = req'[c].offer => d = c
  BY DEF VerdictInv
<1>5. req'[c].offer \in Rows' /\ Shows(offers'[req'[c].offer], req'[c])
  <2>1. CASE Succeeded(c, "decide")
    BY <1>1, <1>2, <2>1 DEF VerdictInv
  <2>2. CASE Settled(c)
    BY <1>1, <1>3, <2>2
  <2> QED
    BY <1>1, <2>1, <2>2
<1>6. ASSUME NEW d \in Calls, Succeeded(d, "decide")', req'[d].offer = req'[c].offer
      PROVE  d = c
  <2>1. /\ req'[c] = req[c] /\ (Succeeded(c, "decide") \/ Settled(c))
        /\ req'[d] = req[d] /\ (Succeeded(d, "decide") \/ Settled(d))
    BY <1>1, <1>6
  <2>2. CASE Succeeded(c, "decide") /\ Succeeded(d, "decide")
    BY <1>6, <2>1, <2>2 DEF VerdictInv
  <2>3. CASE Settled(c) /\ Settled(d)
    BY <1>4, <2>3
  <2>4. CASE Succeeded(c, "decide") /\ Settled(d)
    BY <1>2, <1>3, <1>6, <2>1, <2>4
  <2>5. CASE Settled(c) /\ Succeeded(d, "decide")
    BY <1>2, <1>3, <1>6, <2>1, <2>5
  <2> QED
    BY <2>1, <2>2, <2>3, <2>4, <2>5
<1> QED
  BY <1>5, <1>6

(***************************************************************************)
(* However many supervisors decide at once, one verdict on an offer is     *)
(* acknowledged, and the row shows it and its supervisor ever after.       *)
(***************************************************************************)
THEOREM VerdictsAreFinal == Spec => []OneVerdict
<1>1. Init => VerdictInv
  BY DEF Init, VerdictInv, Succeeded
<1>2. VerdictInv => OneVerdict
  BY DEF VerdictInv, Shows, OneVerdict
<1> QED
  BY <1>1, <1>2, VerdictNext, TypedInit, TypedNext, PTL DEF Spec
-----------------------------------------------------------------------------
(***************************************************************************)
(* The refinement.  Rows without a verdict name no judge, so a verdict     *)
(* changes nothing but what the life cycle says.                           *)
(***************************************************************************)
Undecided ==
    \A id \in Rows : offers[id].status \in {"draft", "pending_approval"} =>
        offers[id].approvedBy = None /\ offers[id].rejectedBy = None

LEMMA UndecidedNext == Typed /\ Undecided /\ [Next]_vars => Undecided'
<1> SUFFICES ASSUME Typed, Undecided, [Next]_vars, NEW id \in Rows',
                    offers'[id].status \in {"draft", "pending_approval"}
             PROVE  offers'[id].approvedBy = None /\ offers'[id].rejectedBy = None
  BY DEF Undecided
<1>1. CASE UNCHANGED offers
  BY <1>1 DEF Undecided, Rows
<1>2. ASSUME NEW c \in Calls, NEW i \in OfferIds, Published(c, i)
      PROVE  offers'[id].approvedBy = None /\ offers'[id].rejectedBy = None
  BY <1>2 DEF Published, Undecided, NewRow, Rows, Typed, TypeOK
<1>3. ASSUME NEW c \in Calls, Marked(c) \/ Settled(c)
      PROVE  offers'[id].approvedBy = None /\ offers'[id].rejectedBy = None
  <2> DEFINE o == req[c].offer
  <2>1. o \in OfferIds /\ offers[o] \in OfferRow /\ id \in Rows
    BY <1>3, UpdatesKeepTerms DEF Marked, Settled, Typed, CallShape, ShapeOf, TypeOK,
       SubmitRequest, DecideRequest, TermsKept, Rows
  <2>2. CASE id # o
    <3>1. offers'[id] = offers[id]
      BY <1>3, <2>1, <2>2 DEF Marked, Settled, Mark, Settle, Rows, Typed, TypeOK
    <3> QED
      BY <2>1, <3>1 DEF Undecided
  <2>3. CASE id = o /\ Marked(c)
    <3>1. offers'[id] = [offers[id] EXCEPT !.status = "pending_approval"]
      BY <2>1, <2>3 DEF Marked, Mark, Typed, TypeOK
    <3>2. offers[id].status = "draft"
      BY <2>3 DEF Marked, Submittable
    <3> QED
      BY <2>1, <2>3, <3>1, <3>2 DEF Undecided, OfferRow
  <2>4. CASE id = o /\ Settled(c)
    <3>1. offers'[id] = Decided(offers[id], req[c].actor, req[c].approve)
      BY <2>1, <2>4 DEF Settled, Settle, Typed, TypeOK
    <3>2. offers'[id].status \in {"approved", "rejected"}
      BY <2>1, <2>4, <3>1 DEF Decided, OfferRow
    <3> QED
      BY <3>2
  <2> QED
    BY <1>3, <2>2, <2>3, <2>4
<1> QED
  BY <1>1, <1>2, <1>3, TableSteps

LEMMA PublishRefines ==
    ASSUME Typed, VersionInv, NEW c \in Calls, NEW id \in OfferIds, Published(c, id)
    PROVE  Lifecycle!Publish(id)
<1> DEFINE row == NewRow(c)
<1>1. /\ row \in OfferRow /\ row.deal = req[c].deal /\ row.version = work[c].version
      /\ row.request = req[c].key
      /\ row.status = IF row.approvalRequired THEN "draft" ELSE "approved"
      /\ row.approvedBy = None /\ row.rejectedBy = None
  BY NewRowTyped DEF Published, NewRow, BirthStatus
<1>2. /\ offers' = [offers EXCEPT ![id] = row] /\ offers'[id] = row /\ offers[id] = None
      /\ WithKey(req[c].key) = {} /\ ~VersionTaken(row.deal, row.version)
  BY <1>1 DEF Published, Rows, Typed, TypeOK
<1>3. /\ row.version \in Nat /\ row.version >= 1
      /\ \A v \in 1..(row.version - 1) : VersionTaken(row.deal, v)
  BY <1>1 DEF Published, VersionInv, SnapshotIsDense, OfferRow
<1> HIDE DEF row
<1>4. Lifecycle!VersionsOf(row.deal) = {offers[i].version : i \in OffersOf(row.deal)}
  BY DEF Lifecycle!VersionsOf, Lifecycle!Rows, OffersOf, Rows
<1>5. \A i \in Lifecycle!Rows : offers[i].request # row.request
  BY <1>1, <1>2 DEF Lifecycle!Rows, WithKey, Rows
<1>6. ASSUME NEW i \in OffersOf(row.deal) PROVE offers[i].version < row.version
  <2>1. i \in Rows /\ offers[i].deal = row.deal /\ offers[i].version \in Nat
    BY DEF OffersOf, Rows, Typed, TypeOK, OfferRow
  <2>2. \A v \in 1..offers[i].version : VersionTaken(row.deal, v)
    BY <2>1 DEF VersionInv, VersionsAreARun
  <2> QED
    BY <1>2, <1>3, <2>1, <2>2
<1>7. row.version = 1 \/ row.version - 1 \in Lifecycle!VersionsOf(row.deal)
  <2>1. row.version # 1 => VersionTaken(row.deal, row.version - 1)
    BY <1>3
  <2> QED
    BY <1>4, <2>1 DEF VersionTaken
<1> QED
  BY <1>1, <1>2, <1>4, <1>5, <1>6, <1>7 DEF Lifecycle!Publish

LEMMA VerdictRefines ==
    ASSUME Typed, Undecided, NEW c \in Calls, Settled(c)
    PROVE  \E id \in OfferIds, s \in {u \in Users : Role[u] = "supervisor"} :
               Lifecycle!Approve(id, s) \/ Lifecycle!Reject(id, s)
<1> DEFINE id == req[c].offer
           s == req[c].actor
<1>1. /\ id \in OfferIds /\ offers[id] \in OfferRow /\ offers[id] # None /\ id \in Rows
      /\ s \in {u \in Users : Role[u] = "supervisor"} /\ req[c].approve \in BOOLEAN
  BY DEF Settled, Typed, CallShape, ShapeOf, TypeOK, DecideRequest, Rows
<1>2. offers[id].status = "pending_approval"
  BY DEF Settled, Decidable
<1>3. offers[id].approvedBy = None /\ offers[id].rejectedBy = None
  BY <1>1, <1>2 DEF Undecided
<1>4. offers' = [offers EXCEPT ![id] = Decided(offers[id], s, req[c].approve)]
  BY DEF Settled, Settle
<1>5. CASE req[c].approve = TRUE
  <2>1. Decided(offers[id], s, TRUE)
            = [offers[id] EXCEPT !.status = "approved", !.approvedBy = s]
    BY <1>1, <1>3 DEF Decided, OfferRow
  <2> HIDE DEF id, s
  <2>2. Lifecycle!Approve(id, s)
    BY <1>1, <1>2, <1>4, <1>5, <2>1 DEF Lifecycle!Approve
  <2> QED
    BY <1>1, <2>2
<1>6. CASE req[c].approve = FALSE
  <2>1. Decided(offers[id], s, FALSE)
            = [offers[id] EXCEPT !.status = "rejected", !.rejectedBy = s]
    BY <1>1, <1>3 DEF Decided, OfferRow
  <2> HIDE DEF id, s
  <2>2. Lifecycle!Reject(id, s)
    BY <1>1, <1>2, <1>4, <1>6, <2>1 DEF Lifecycle!Reject
  <2> QED
    BY <1>1, <2>2
<1> QED
  BY <1>1, <1>5, <1>6

(***************************************************************************)
(* The statements of concurrent calls implement the atomic life cycle.     *)
(***************************************************************************)
THEOREM CallsImplementLifecycle == Spec => ImplementsLifecycle
<1>1. Init => Lifecycle!Init /\ VersionInv /\ Undecided
  BY DEF Init, Lifecycle!Init, VersionInv, VersionsAreARun, SnapshotIsDense, Undecided, Rows
<1>2. Typed /\ VersionInv /\ Undecided /\ [Next]_vars => [Lifecycle!Next]_offers
  <2> SUFFICES ASSUME Typed, VersionInv, Undecided, [Next]_vars
               PROVE  [Lifecycle!Next]_offers
    OBVIOUS
  <2>1. ASSUME NEW c \in Calls, NEW id \in OfferIds, Published(c, id)
        PROVE  Lifecycle!Next
    BY <2>1, PublishRefines DEF Lifecycle!Next
  <2>2. ASSUME NEW c \in Calls, Marked(c) PROVE Lifecycle!Next
    <3>1. req[c].offer \in OfferIds /\ offers[req[c].offer] # None
      BY <2>2 DEF Marked, Typed, CallShape, ShapeOf, SubmitRequest
    <3>2. Lifecycle!Submit(req[c].offer)
      BY <2>2, <3>1 DEF Marked, Mark, Submittable, Lifecycle!Submit
    <3> QED
      BY <3>1, <3>2 DEF Lifecycle!Next
  <2>3. ASSUME NEW c \in Calls, Settled(c) PROVE Lifecycle!Next
    BY <2>3, VerdictRefines DEF Lifecycle!Next
  <2> QED
    BY <2>1, <2>2, <2>3, TableSteps
<1>3. Typed /\ VersionInv /\ [Next]_vars => VersionInv'
  BY SnapshotIsDenseNext, VersionsAreARunNext DEF VersionInv
<1> QED
  BY <1>1, <1>2, <1>3, UndecidedNext, TypedInit, TypedNext, PTL
     DEF Spec, ImplementsLifecycle, Lifecycle!Spec
-----------------------------------------------------------------------------
(***************************************************************************)
(* Authority.  Who may act for a deal is read once, from tables that never *)
(* change, about an offer that keeps its deal.                             *)
(***************************************************************************)
Authorised(c) ==
    /\ pc[c] \in CreateSteps => MayOffer(req[c].actor, req[c].deal)
    /\ pc[c] = "mark" => MayOffer(req[c].actor, offers[req[c].offer].deal)

LEMMA AuthorisedNext ==
    ASSUME Typed, [Next]_vars, NEW d \in Calls, Authorised(d)
    PROVE  Authorised(d)'
<1> USE DEF Typed, TypeOK
<1>1. ASSUME NEW id \in Rows PROVE offers'[id].deal = offers[id].deal
  BY <1>1, RowsStay DEF Lasting
<1>2. CASE Kept(d)
  <2>1. pc[d] = "mark" => req[d].offer \in Rows
    BY DEF CallShape, ShapeOf, SubmitRequest, Rows
  <2> QED
    BY <1>1, <1>2, <2>1 DEF Kept, Authorised, MayOffer
<1>3. ASSUME NEW res, NEW id, Answer(d, res, id) PROVE pc'[d] = "done"
  BY <1>3 DEF Answer, Goto
<1>4. ASSUME NEW step, NEW w, Continue(d, step, w) PROVE pc'[d] = step
  BY <1>4 DEF Continue, Goto
<1>5. ASSUME pc'[d] = "done" PROVE Authorised(d)'
  BY <1>5 DEF Authorised, CreateSteps
<1>6. ASSUME NEW r \in Requests, ReadLimit(d, r) PROVE Authorised(d)'
  <2>1. req'[d] = r
    BY <1>6 DEF ReadLimit
  <2>2. pc'[d] = "done" \/ (pc'[d] = "price" /\ MayOffer(r.actor, r.deal))
    BY <1>3, <1>4, <1>6 DEF ReadLimit
  <2> QED
    BY <1>5, <2>1, <2>2 DEF Authorised, MayOffer, CreateSteps
<1>7. CASE ReadPrice(d) \/ ReadUnit(d, "parking", "storage") \/ ReadUnit(d, "storage", "lookup")
           \/ Lookup(d) \/ Snapshot(d) \/ Insert(d)
  <2>1. pc[d] \in CreateSteps /\ req'[d] = req[d]
    BY <1>7 DEF ReadPrice, ReadUnit, Lookup, Snapshot, Insert, CreateSteps
  <2>2. pc'[d] \in CreateSteps \cup {"done"}
    BY <1>3, <1>4, <1>7 DEF ReadPrice, ReadUnit, Lookup, Snapshot, Insert, Acknowledge,
       CreateSteps
  <2> QED
    BY <1>5, <2>1, <2>2 DEF Authorised, MayOffer, CreateSteps
<1>8. ASSUME NEW r \in Requests, ReadOffer(d, r) PROVE Authorised(d)'
  <2>1. req'[d] = r /\ UNCHANGED offers
    BY <1>8 DEF ReadOffer, table
  <2>2. pc'[d] = "done" \/ (pc'[d] = "mark" /\ MayOffer(r.actor, offers[r.offer].deal))
    BY <1>3, <1>4, <1>8 DEF ReadOffer
  <2> QED
    BY <1>5, <2>1, <2>2 DEF Authorised, MayOffer, CreateSteps
<1>9. ASSUME NEW r \in Requests, ReadForDecision(d, r) PROVE Authorised(d)'
  <2>1. pc'[d] \in {"done", "settle"}
    BY <1>3, <1>4, <1>9 DEF ReadForDecision
  <2> QED
    BY <2>1 DEF Authorised, CreateSteps
<1>10. CASE Mark(d) \/ Recheck(d) \/ Settle(d) \/ Abandon(d)
  <2>1. pc'[d] \in {"done", "recheck"}
    BY <1>3, <1>4, <1>10 DEF Mark, Recheck, Settle, Abandon, Acknowledge
  <2> QED
    BY <2>1 DEF Authorised, CreateSteps
<1> QED
  BY <1>2, <1>6, <1>7, <1>8, <1>9, <1>10, CallSteps DEF CreateStep, VerdictStep

(* What the acknowledgement of a write tells.                              *)
LEMMA AcknowledgeTells ==
    ASSUME Typed, NEW c \in Calls, NEW id, Acknowledge(c, id)
    PROVE  /\ pc'[c] = "done"
           /\ reply'[c] \in {[result |-> "ok", offer |-> id], NoReply}
BY DEF Acknowledge, Answer, Goto, NoReply, Typed, TypeOK

Accounted(id) ==
    \E c \in Calls :
        LET u == req[c].actor IN
        /\ pc[c] # "done" /\ pc'[c] = "done"
        /\ reply'[c] \in {[result |-> "ok", offer |-> id], NoReply}
        /\ \/ Role[u] = "supervisor"
           \/ /\ Role[u] = "manager" /\ req[c].op # "decide"
              /\ DealEmployee[offers'[id].deal] = u

LEMMA ChangeAccounted ==
    ASSUME Typed, \A c \in Calls : Authorised(c), [Next]_vars, NEW id \in OfferIds,
           offers'[id] # offers[id]
    PROVE  Accounted(id)
<1>1. ASSUME NEW c \in Calls, NEW i \in OfferIds, Published(c, i) PROVE Accounted(id)
  <2>1. id = i /\ offers'[id] = NewRow(c) /\ pc[c] \in CreateSteps /\ pc[c] # "done"
    BY <1>1 DEF Published, CreateSteps, Typed, TypeOK
  <2>2. MayOffer(req[c].actor, req[c].deal) /\ offers'[id].deal = req[c].deal
    BY <2>1 DEF Authorised, NewRow
  <2>3. req[c].op # "decide"
    BY <2>1, CreateShape DEF CreateRequest
  <2>4. pc'[c] = "done" /\ reply'[c] \in {[result |-> "ok", offer |-> id], NoReply}
    BY <1>1, <2>1, AcknowledgeTells DEF Published
  <2> QED
    BY <2>1, <2>2, <2>3, <2>4 DEF Accounted, MayOffer
<1>2. ASSUME NEW c \in Calls, Marked(c) PROVE Accounted(id)
  <2>1. /\ id = req[c].offer /\ pc[c] = "mark" /\ id \in Rows
        /\ req[c].op # "decide"
    BY <1>2 DEF Marked, Mark, Typed, TypeOK, CallShape, ShapeOf, SubmitRequest, Rows
  <2>2. MayOffer(req[c].actor, offers[id].deal)
    BY <2>1 DEF Authorised
  <2>3. offers'[id].deal = offers[id].deal
    BY <2>1, RowsStay DEF Lasting
  <2>4. pc'[c] = "done" /\ reply'[c] \in {[result |-> "ok", offer |-> id], NoReply}
    BY <1>2, <2>1, AcknowledgeTells DEF Marked, Mark
  <2> QED
    BY <2>1, <2>2, <2>3, <2>4 DEF Accounted, MayOffer
<1>3. ASSUME NEW c \in Calls, Settled(c) PROVE Accounted(id)
  <2>1. id = req[c].offer /\ pc[c] = "settle" /\ Role[req[c].actor] = "supervisor"
    BY <1>3 DEF Settled, Settle, Typed, TypeOK, CallShape, ShapeOf
  <2>2. pc'[c] = "done" /\ reply'[c] \in {[result |-> "ok", offer |-> id], NoReply}
    BY <1>3, <2>1, AcknowledgeTells DEF Settled, Settle
  <2> QED
    BY <2>1, <2>2 DEF Accounted
<1> QED
  BY <1>1, <1>2, <1>3, TableSteps

(***************************************************************************)
(* No step changes an offer but the last step of a call whose caller was   *)
(* entitled to it.                                                         *)
(***************************************************************************)
THEOREM ChangesAreAccountedFor == Spec => ChangesAreAuthorised
<1>1. Init => \A c \in Calls : Authorised(c)
  BY DEF Init, Authorised, CreateSteps
<1>2. Typed /\ (\A c \in Calls : Authorised(c)) /\ [Next]_vars
          => (\A c \in Calls : Authorised(c))'
  BY AuthorisedNext
<1>3. Typed /\ (\A c \in Calls : Authorised(c)) /\ [Next]_vars
          => [\A id \in OfferIds : offers'[id] # offers[id] =>
                 \E c \in Calls :
                    LET u == req[c].actor IN
                    /\ pc[c] # "done" /\ pc'[c] = "done"
                    /\ reply'[c] \in {[result |-> "ok", offer |-> id], NoReply}
                    /\ \/ Role[u] = "supervisor"
                       \/ /\ Role[u] = "manager" /\ req[c].op # "decide"
                          /\ DealEmployee[offers'[id].deal] = u]_vars
  BY ChangeAccounted DEF Accounted
<1> QED
  BY <1>1, <1>2, <1>3, TypedInit, TypedNext, PTL DEF Spec, ChangesAreAuthorised

-----------------------------------------------------------------------------
(***************************************************************************)
(* Deliveries, for any number of offers, requests to them and deliveries   *)
(* of them.  What leaves the house depends on what requests in flight      *)
(* carry: the inductive invariant says where each one stands, that an      *)
(* approval it read still holds, and that the paper it carries says what   *)
(* the offer says.                                                         *)
(***************************************************************************)

Papers == {"admit", "file", "enrol", "mail", "sent", "failed"}
Admitted == Papers \ {"admit"}

Offer(x) == delivery[x].req.offer

Approved(o) == offers[o] # None /\ offers[o].status = "approved"

(* Where request x stands, and what it has read.                           *)
Carries(x) ==
    LET k == delivery[x] IN
    /\ k.at = "idle" => k.req = None /\ enrolled[x] = None /\ mailed[x] = None
                           /\ k.told = "lost"
    /\ k.at # "idle" => k.req \in DeliveryRequests
    /\ k.at \in Papers \cup {"document"} =>
          /\ offers[Offer(x)] # None /\ k.told = "lost"
          /\ k.approved => Approved(Offer(x))
    /\ k.at \in Papers => k.paper = Terms(Offer(x))
    /\ k.at \in Admitted => k.approved

(* What request x has left in the log, at the mail server and on file.     *)
Leaves(x) ==
    LET k == delivery[x] IN
    /\ k.at \in {"document", "admit", "file", "enrol"} => enrolled[x] = None /\ mailed[x] = None
    /\ k.at \in {"enrol", "mail", "sent", "failed"} => document[Offer(x)] # None
    /\ k.at \in {"mail", "sent", "failed"} => enrolled[x] = "pending"
    /\ k.at = "mail" => mailed[x] = None
    /\ k.at = "sent" => mailed[x] # None
    /\ enrolled[x] = "sent" => mailed[x] # None
    /\ mailed[x] # None =>
          /\ enrolled[x] # None /\ document[Offer(x)] # None
          /\ Approved(Offer(x)) /\ mailed[x] = Terms(Offer(x))
    /\ k.told = "ok" /\ k.req.op = "send" => enrolled[x] = "sent"

Filed(o) == document[o] # None => Approved(o) /\ document[o] = Terms(o)

DeliveryInv ==
    /\ DeliveryTypeOK
    /\ \A x \in Deliveries : Carries(x) /\ Leaves(x)
    /\ \A o \in OfferIds : Filed(o)
-----------------------------------------------------------------------------
LEMMA TermsTyped ==
    ASSUME TypeOK, NEW o \in OfferIds, offers[o] # None
    PROVE  Terms(o) \in PossibleTerms /\ Terms(o) # None
<1>1. offers[o] \in OfferRow
  BY DEF TypeOK
<1>2. Terms(o) \in PossibleTerms
  BY <1>1 DEF Terms, PossibleTerms, OfferRow
<1> QED
  BY <1>2, TermsAssumption

LEMMA RequestTyped ==
    ASSUME NEW r \in DeliveryRequests
    PROVE  /\ r \in DeliveryRequest /\ r # None
           /\ r.op \in {"pdf", "send"} /\ r.offer \in OfferIds
BY DeliveryAssumption, TermsAssumption DEF DeliveryRequest

LEMMA DeliveryInitInv == DeliveryInit => DeliveryInv
<1> SUFFICES ASSUME DeliveryInit PROVE DeliveryInv
  OBVIOUS
<1>1. TypeOK
  BY TypedInit DEF DeliveryInit, Typed
<1>2. \A x \in Deliveries :
          /\ delivery[x].at = "idle" /\ delivery[x].req = None /\ delivery[x].told = "lost"
          /\ enrolled[x] = None /\ mailed[x] = None
  BY DEF DeliveryInit
<1>3. delivery \in [Deliveries -> Delivery]
  BY DEF DeliveryInit, Delivery, DeliverySteps, DeliveryResults
<1>4. DeliveryTypeOK
  BY <1>1, <1>3 DEF DeliveryInit, DeliveryTypeOK
<1>5. \A x \in Deliveries : Carries(x) /\ Leaves(x)
  <2> SUFFICES ASSUME NEW x \in Deliveries PROVE Carries(x) /\ Leaves(x)
    OBVIOUS
  <2>1. "idle" \notin Papers \cup {"document"}
    BY DEF Papers
  <2>2. Carries(x)
    BY <1>2, <2>1 DEF Carries, Admitted
  <2>3. None # "sent"
    BY TermsAssumption DEF MailStatuses
  <2>4. Leaves(x)
    BY <1>2, <2>3 DEF Leaves
  <2> QED
    BY <2>2, <2>4
<1>6. \A o \in OfferIds : Filed(o)
  BY DEF DeliveryInit, Filed
<1> QED
  BY <1>4, <1>5, <1>6 DEF DeliveryInv

(* What the life cycle of the offers leaves of a delivery.                 *)
LEMMA OffersStand ==
    ASSUME Typed, [Next]_vars, NEW o \in OfferIds, offers[o] # None
    PROVE  /\ offers'[o] # None /\ Terms(o)' = Terms(o)
           /\ Approved(o) => Approved(o)'
<1>1. o \in Rows
  BY DEF Rows
<1>2. offers'[o] # None /\ Lasting(offers'[o]) = Lasting(offers[o])
  BY <1>1, RowsStay
<1>3. Terms(o)' = Terms(o)
  BY <1>2 DEF Lasting, Terms
<1>4. Approved(o) => Approved(o)'
  BY <1>1, <1>2, DecidedStays DEF Approved
<1> QED
  BY <1>2, <1>3, <1>4

LEMMA LifecycleStep ==
    ASSUME Typed, DeliveryInv, [Next]_vars, UNCHANGED deliveryVars
    PROVE  DeliveryInv'
<1>1. Typed'
  BY TypedNext
<1>2. DeliveryTypeOK'
  BY <1>1 DEF DeliveryInv, DeliveryTypeOK, Typed, deliveryVars
<1>3. ASSUME NEW o \in OfferIds PROVE Filed(o)'
  BY OffersStand DEF DeliveryInv, Filed, Approved, deliveryVars
<1>4. ASSUME NEW x \in Deliveries PROVE Carries(x)' /\ Leaves(x)'
  <2>1. /\ delivery'[x] = delivery[x] /\ enrolled'[x] = enrolled[x] /\ mailed'[x] = mailed[x]
        /\ document' = document
    BY DEF deliveryVars
  <2>2. /\ Offer(x)' = Offer(x)
        /\ delivery[x].at # "idle" => Offer(x) \in OfferIds
    BY <2>1, RequestTyped DEF DeliveryInv, Carries, Offer
  <2>3. Carries(x)'
    BY <2>1, <2>2, OffersStand DEF DeliveryInv, Carries, Approved, Papers, Admitted
  <2>4. mailed[x] # None => delivery[x].at # "idle"
    BY DEF DeliveryInv, Carries
  <2>5. Leaves(x)'
    BY <2>1, <2>2, <2>4, OffersStand DEF DeliveryInv, Leaves, Approved
  <2> QED
    BY <2>3, <2>5
<1> QED
  BY <1>2, <1>3, <1>4 DEF DeliveryInv

(* A step of one delivery leaves the offers and the other deliveries.      *)
LEMMA OneDelivery ==
    ASSUME DeliveryInv, UNCHANGED vars, NEW x \in Deliveries,
           delivery' \in [Deliveries -> Delivery],
           document' \in [OfferIds -> PossibleTerms \cup {None}],
           enrolled' \in [Deliveries -> MailStatuses \cup {None}],
           mailed' \in [Deliveries -> PossibleTerms \cup {None}],
           \A y \in Deliveries \ {x} :
               delivery'[y] = delivery[y] /\ enrolled'[y] = enrolled[y] /\ mailed'[y] = mailed[y],
           \A o \in OfferIds :
               \/ document'[o] = document[o]
               \/ document'[o] # None /\ document'[o] = Terms(o) /\ Approved(o),
           Carries(x)', Leaves(x)'
    PROVE  DeliveryInv'
<1>1. offers' = offers /\ TypeOK'
  BY DEF vars, DeliveryInv, DeliveryTypeOK, TypeOK
<1>2. DeliveryTypeOK'
  BY <1>1 DEF DeliveryTypeOK
<1>3. ASSUME NEW o \in OfferIds PROVE Filed(o)'
  BY <1>1 DEF DeliveryInv, Filed, Approved, Terms
<1>4. ASSUME NEW y \in Deliveries \ {x} PROVE Carries(y)' /\ Leaves(y)'
  <2>1. /\ delivery'[y] = delivery[y] /\ enrolled'[y] = enrolled[y] /\ mailed'[y] = mailed[y]
        /\ Carries(y) /\ Leaves(y)
    BY <1>4 DEF DeliveryInv
  <2>2. Offer(y)' = Offer(y)
    BY <2>1 DEF Offer
  <2>3. delivery[y].at # "idle" => Offer(y) \in OfferIds
    BY <2>1, RequestTyped DEF Carries, Offer
  <2>4. Carries(y)'
    BY <1>1, <2>1, <2>2 DEF Carries, Approved, Terms
  <2>5. mailed[y] # None \/ delivery[y].at \in {"enrol", "mail", "sent", "failed"}
            => Offer(y) \in OfferIds
    BY <2>1, <2>3 DEF Carries
  <2>6. document[Offer(y)] # None /\ Offer(y) \in OfferIds => document'[Offer(y)] # None
    OBVIOUS
  <2>7. Leaves(y)'
    BY <1>1, <2>1, <2>2, <2>5, <2>6 DEF Leaves, Approved, Terms
  <2> QED
    BY <2>4, <2>7
<1> QED
  BY <1>2, <1>3, <1>4 DEF DeliveryInv
(* The request of a delivery under way, and what its record may become.    *)
LEMMA InHand ==
    ASSUME DeliveryInv, NEW x \in Deliveries, delivery[x].at \notin {"idle", "done"}
    PROVE  /\ delivery[x] \in Delivery /\ delivery[x].at \in Papers \cup {"document"}
           /\ delivery[x].req \in DeliveryRequests
           /\ delivery[x].req.op \in {"pdf", "send"}
           /\ Offer(x) \in OfferIds /\ offers[Offer(x)] # None
           /\ delivery[x].told = "lost"
           /\ Carries(x) /\ Leaves(x)
<1>1. delivery[x] \in Delivery /\ Carries(x) /\ Leaves(x)
  BY DEF DeliveryInv, DeliveryTypeOK
<1>2. delivery[x].at \in Papers \cup {"document"}
  BY <1>1 DEF Delivery, DeliverySteps, Papers
<1>3. delivery[x].req \in DeliveryRequests
  BY <1>1 DEF Carries
<1> QED
  BY <1>1, <1>2, <1>3, RequestTyped DEF Carries, Offer

LEMMA ProceedIs ==
    ASSUME DeliveryInv, NEW x \in Deliveries, delivery[x].at \notin {"idle", "done"},
           NEW step \in DeliverySteps, Proceed(x, step)
    PROVE  /\ delivery' \in [Deliveries -> Delivery]
           /\ \A y \in Deliveries \ {x} : delivery'[y] = delivery[y]
           /\ delivery'[x].at = step /\ delivery'[x].req = delivery[x].req
           /\ delivery'[x].approved = delivery[x].approved
           /\ delivery'[x].paper = delivery[x].paper
           /\ delivery'[x].told = delivery[x].told
           /\ Offer(x)' = Offer(x)
<1> DEFINE k == [delivery[x] EXCEPT !.at = step]
<1>1. delivery[x] \in Delivery
  BY InHand
<1>2. /\ k \in Delivery /\ k.at = step /\ k.req = delivery[x].req
      /\ k.approved = delivery[x].approved /\ k.paper = delivery[x].paper
      /\ k.told = delivery[x].told
  BY <1>1 DEF Delivery
<1>3. delivery' = [delivery EXCEPT ![x] = k]
  BY DEF Proceed
<1> HIDE DEF k
<1> QED
  BY <1>2, <1>3 DEF DeliveryInv, DeliveryTypeOK, Offer

LEMMA CloseIs ==
    ASSUME DeliveryInv, NEW x \in Deliveries, delivery[x].at \notin {"idle", "done"},
           NEW result \in DeliveryResults, Close(x, result)
    PROVE  /\ delivery' \in [Deliveries -> Delivery]
           /\ \A y \in Deliveries \ {x} : delivery'[y] = delivery[y]
           /\ delivery'[x].at = "done" /\ delivery'[x].req = delivery[x].req
           /\ delivery'[x].told = result
           /\ Offer(x)' = Offer(x)
           /\ Carries(x)'
<1> DEFINE k == [delivery[x] EXCEPT !.at = "done", !.told = result]
<1>1. delivery[x] \in Delivery /\ delivery[x].req \in DeliveryRequests
  BY InHand
<1>2. k \in Delivery /\ k.at = "done" /\ k.req = delivery[x].req /\ k.told = result
  BY <1>1 DEF Delivery, DeliverySteps
<1>3. delivery' = [delivery EXCEPT ![x] = k]
  BY DEF Close
<1> HIDE DEF k
<1>4. /\ delivery' \in [Deliveries -> Delivery] /\ delivery'[x] = k
      /\ \A y \in Deliveries \ {x} : delivery'[y] = delivery[y]
  BY <1>2, <1>3 DEF DeliveryInv, DeliveryTypeOK
<1>5. Carries(x)'
  BY <1>1, <1>2, <1>4 DEF Carries, Papers, Admitted
<1> QED
  BY <1>2, <1>4, <1>5 DEF Offer

(* A request that ends without writing a row of its own.                   *)
LEMMA Closed ==
    ASSUME DeliveryInv, UNCHANGED vars, NEW x \in Deliveries,
           delivery[x].at \notin {"idle", "done"},
           NEW result \in DeliveryResults \ {"ok"}, Close(x, result),
           UNCHANGED <<document, enrolled, mailed>>
    PROVE  DeliveryInv'
<1>1. /\ delivery' \in [Deliveries -> Delivery]
      /\ \A y \in Deliveries \ {x} : delivery'[y] = delivery[y]
      /\ delivery'[x].at = "done" /\ delivery'[x].told = result
      /\ delivery'[x].req = delivery[x].req
      /\ Offer(x)' = Offer(x) /\ Carries(x)'
  BY CloseIs
<1>2. Leaves(x) /\ offers' = offers
  BY InHand DEF vars
<1>3. Leaves(x)'
  BY <1>1, <1>2 DEF Leaves, Approved, Terms
<1> QED
  BY <1>1, <1>3, OneDelivery DEF DeliveryInv, DeliveryTypeOK
-----------------------------------------------------------------------------
LEMMA ReadForDeliveryInv ==
    ASSUME DeliveryInv, NEW x \in Deliveries, NEW r \in DeliveryRequests,
           ReadForDelivery(x, r)
    PROVE  DeliveryInv'
<1>1. /\ delivery[x].at = "idle" /\ UNCHANGED <<vars, document, enrolled, mailed>>
      /\ offers' = offers
  BY DEF ReadForDelivery, vars
<1>2. /\ delivery[x] \in Delivery /\ enrolled[x] = None /\ mailed[x] = None
      /\ None # "sent"
  BY <1>1, TermsAssumption DEF DeliveryInv, DeliveryTypeOK, Carries, MailStatuses
<1>3. PICK k \in Delivery :
          /\ delivery' = [delivery EXCEPT ![x] = k]
          /\ k.req = r
          /\ \/ k.at = "done" /\ k.told # "ok"
             \/ /\ k.at = "document" /\ k.told = "lost" /\ offers[r.offer] # None
                /\ k.approved => Approved(r.offer)
  <2>1. CASE \E result \in DeliveryResults \ {"ok"} : Decline(x, r, result)
    <3>1. PICK result \in DeliveryResults \ {"ok"} : Decline(x, r, result)
      BY <2>1
    <3> DEFINE k == [delivery[x] EXCEPT !.at = "done", !.req = r, !.told = result]
    <3>2. k \in Delivery /\ k.req = r /\ k.at = "done" /\ k.told = result
      BY <1>2 DEF Delivery, DeliverySteps
    <3>3. delivery' = [delivery EXCEPT ![x] = k]
      BY <3>1 DEF Decline
    <3> QED
      BY <3>1, <3>2, <3>3
  <2>2. CASE /\ offers[r.offer] # None
             /\ delivery' = [delivery EXCEPT ![x] =
                    [at |-> "document", req |-> r, approved |-> Deliverable(r.offer),
                     paper |-> None, told |-> "lost"]]
    <3> DEFINE k == [at |-> "document", req |-> r, approved |-> Deliverable(r.offer),
                     paper |-> None, told |-> "lost"]
    <3>1. Deliverable(r.offer) \in BOOLEAN
      BY DEF Deliverable
    <3>2. /\ k \in Delivery /\ k.req = r /\ k.at = "document" /\ k.told = "lost"
      BY <3>1 DEF Delivery, DeliverySteps, DeliveryResults
    <3>3. k.approved => Approved(r.offer)
      BY <2>2 DEF Deliverable, Approved
    <3> HIDE DEF k
    <3>4. delivery' = [delivery EXCEPT ![x] = k]
      BY <2>2 DEF k
    <3> QED
      BY <2>2, <3>2, <3>3, <3>4
  <2> QED
    BY <2>1, <2>2 DEF ReadForDelivery, DeliveryResults
<1>4. /\ delivery' \in [Deliveries -> Delivery] /\ delivery'[x] = k
      /\ \A y \in Deliveries \ {x} : delivery'[y] = delivery[y]
      /\ Offer(x)' = r.offer
  BY <1>3 DEF DeliveryInv, DeliveryTypeOK, Offer
<1>5. Carries(x)'
  BY <1>1, <1>3, <1>4 DEF Carries, Approved, Papers, Admitted
<1>6. Leaves(x)'
  BY <1>1, <1>2, <1>3, <1>4 DEF Leaves
<1> QED
  BY <1>1, <1>4, <1>5, <1>6, OneDelivery DEF DeliveryInv, DeliveryTypeOK

LEMMA BuildInv ==
    ASSUME DeliveryInv, NEW x \in Deliveries, Build(x)
    PROVE  DeliveryInv'
<1>1. /\ delivery[x].at = "document" /\ UNCHANGED <<vars, document, enrolled, mailed>>
      /\ offers' = offers
  BY DEF Build, vars
<1>2. CASE Close(x, "error")
  BY <1>1, <1>2, Closed DEF DeliveryResults
<1> DEFINE o == delivery[x].req.offer
           k == [delivery[x] EXCEPT !.at = "admit", !.paper = Terms(o)]
<1>3. CASE delivery' = [delivery EXCEPT ![x] = k]
  <2>1. /\ delivery[x] \in Delivery /\ o \in OfferIds /\ offers[o] # None /\ o = Offer(x)
        /\ Carries(x) /\ Leaves(x) /\ delivery[x].req \in DeliveryRequests
    BY <1>1, InHand DEF Offer
  <2>2. Terms(o) \in PossibleTerms
    BY <2>1, TermsTyped DEF DeliveryInv, DeliveryTypeOK
  <2> DEFINE paper == Terms(o)
  <2>3. /\ k \in Delivery /\ k.at = "admit" /\ k.req = delivery[x].req
        /\ k.approved = delivery[x].approved /\ k.paper = paper /\ k.told = delivery[x].told
    <3> HIDE DEF paper, o
    <3> QED
      BY <2>1, <2>2 DEF Delivery, DeliverySteps, paper
  <2> HIDE DEF k
  <2>4. /\ delivery' \in [Deliveries -> Delivery] /\ delivery'[x] = k
        /\ \A y \in Deliveries \ {x} : delivery'[y] = delivery[y]
    BY <1>3, <2>3 DEF DeliveryInv, DeliveryTypeOK
  <2>5. Offer(x)' = o
    BY <2>3, <2>4 DEF Offer
  <2> HIDE DEF o
  <2>6. Carries(x)'
    BY <1>1, <2>1, <2>3, <2>4, <2>5 DEF Carries, Approved, Terms, Papers, Admitted
  <2>7. Leaves(x)'
    BY <1>1, <2>1, <2>3, <2>4, <2>5 DEF Leaves, Approved, Terms
  <2> QED
    BY <1>1, <2>4, <2>6, <2>7, OneDelivery DEF DeliveryInv, DeliveryTypeOK
<1> QED
  BY <1>2, <1>3 DEF Build

LEMMA AdmitInv ==
    ASSUME DeliveryInv, NEW x \in Deliveries, Admit(x)
    PROVE  DeliveryInv'
<1>1. /\ delivery[x].at = "admit" /\ UNCHANGED <<vars, document, enrolled, mailed>>
      /\ offers' = offers
  BY DEF Admit, vars
<1>2. CASE Close(x, "error")
  BY <1>1, <1>2, Closed DEF DeliveryResults
<1>3. CASE delivery[x].approved /\ Proceed(x, "file")
  <2>1. Carries(x) /\ Leaves(x)
    BY <1>1, InHand
  <2>2. /\ delivery' \in [Deliveries -> Delivery]
        /\ \A y \in Deliveries \ {x} : delivery'[y] = delivery[y]
        /\ delivery'[x].at = "file" /\ delivery'[x].req = delivery[x].req
        /\ delivery'[x].approved = delivery[x].approved
        /\ delivery'[x].paper = delivery[x].paper
        /\ delivery'[x].told = delivery[x].told /\ Offer(x)' = Offer(x)
    BY <1>1, <1>3, ProceedIs DEF DeliverySteps
  <2>3. Carries(x)'
    BY <1>1, <1>3, <2>1, <2>2 DEF Carries, Approved, Terms, Papers, Admitted
  <2>4. Leaves(x)'
    BY <1>1, <2>1, <2>2 DEF Leaves, Approved, Terms
  <2> QED
    BY <1>1, <2>2, <2>3, <2>4, OneDelivery DEF DeliveryInv, DeliveryTypeOK
<1> QED
  BY <1>2, <1>3 DEF Admit
LEMMA FileInv ==
    ASSUME DeliveryInv, NEW x \in Deliveries, File(x)
    PROVE  DeliveryInv'
<1> DEFINE o == delivery[x].req.offer
           paper == delivery[x].paper
<1>1. /\ delivery[x].at = "file" /\ UNCHANGED <<vars, enrolled, mailed>>
      /\ offers' = offers
      /\ document' = [document EXCEPT ![o] = paper]
  BY DEF File, vars
<1>2. /\ Carries(x) /\ Leaves(x) /\ o \in OfferIds /\ o = Offer(x) /\ offers[o] # None
      /\ delivery[x].req.op \in {"pdf", "send"} /\ delivery[x].req \in DeliveryRequests
  BY <1>1, InHand DEF Offer
<1>3. paper = Terms(o) /\ Approved(o) /\ delivery[x].approved
  BY <1>1, <1>2 DEF Carries, Papers, Admitted
<1>4. Terms(o) \in PossibleTerms /\ Terms(o) # None
  BY <1>2, TermsTyped DEF DeliveryInv, DeliveryTypeOK
<1>5. /\ document' \in [OfferIds -> PossibleTerms \cup {None}]
      /\ document'[o] = Terms(o)
      /\ \A i \in OfferIds : i # o => document'[i] = document[i]
  BY <1>1, <1>2, <1>3, <1>4 DEF DeliveryInv, DeliveryTypeOK
<1>6. \A i \in OfferIds :
          \/ document'[i] = document[i]
          \/ document'[i] # None /\ document'[i] = Terms(i) /\ Approved(i)
  BY <1>3, <1>4, <1>5
<1> HIDE DEF o, paper
<1>7. CASE delivery[x].req.op = "pdf"
  <2>1. Close(x, "ok")
    BY <1>7 DEF File
  <2>2. /\ delivery' \in [Deliveries -> Delivery]
        /\ \A y \in Deliveries \ {x} : delivery'[y] = delivery[y]
        /\ delivery'[x].at = "done" /\ delivery'[x].told = "ok"
        /\ delivery'[x].req = delivery[x].req
        /\ Offer(x)' = Offer(x) /\ Carries(x)'
    BY <1>1, <2>1, CloseIs DEF DeliveryResults
  <2>3. Leaves(x)'
    BY <1>1, <1>2, <1>4, <1>5, <1>7, <2>2 DEF Leaves, Approved
  <2> QED
    BY <1>1, <1>5, <1>6, <2>2, <2>3, OneDelivery DEF DeliveryInv, DeliveryTypeOK
<1>8. CASE delivery[x].req.op # "pdf"
  <2>1. Proceed(x, "enrol")
    BY <1>8 DEF File
  <2>2. /\ delivery' \in [Deliveries -> Delivery]
        /\ \A y \in Deliveries \ {x} : delivery'[y] = delivery[y]
        /\ delivery'[x].at = "enrol" /\ delivery'[x].req = delivery[x].req
        /\ delivery'[x].approved = delivery[x].approved
        /\ delivery'[x].paper = delivery[x].paper
        /\ delivery'[x].told = delivery[x].told /\ Offer(x)' = Offer(x)
    BY <1>1, <2>1, ProceedIs DEF DeliverySteps
  <2>3. Carries(x)'
    BY <1>1, <1>2, <2>2 DEF Carries, Approved, Terms, Papers, Admitted
  <2>4. Leaves(x)'
    BY <1>1, <1>2, <1>4, <1>5, <2>2 DEF Leaves, Approved
  <2> QED
    BY <1>1, <1>5, <1>6, <2>2, <2>3, <2>4, OneDelivery DEF DeliveryInv, DeliveryTypeOK
<1> QED
  BY <1>7, <1>8

LEMMA EnrolInv ==
    ASSUME DeliveryInv, NEW x \in Deliveries, Enrol(x)
    PROVE  DeliveryInv'
<1>1. /\ delivery[x].at = "enrol" /\ UNCHANGED <<vars, document, mailed>>
      /\ offers' = offers /\ Proceed(x, "mail")
      /\ enrolled' = [enrolled EXCEPT ![x] = "pending"]
  BY DEF Enrol, Enrolled, vars
<1>2. Carries(x) /\ Leaves(x)
  BY <1>1, InHand
<1>3. /\ delivery' \in [Deliveries -> Delivery]
      /\ \A y \in Deliveries \ {x} : delivery'[y] = delivery[y]
      /\ delivery'[x].at = "mail" /\ delivery'[x].req = delivery[x].req
      /\ delivery'[x].approved = delivery[x].approved
      /\ delivery'[x].paper = delivery[x].paper
      /\ delivery'[x].told = delivery[x].told /\ Offer(x)' = Offer(x)
  BY <1>1, ProceedIs DEF DeliverySteps
<1>4. /\ enrolled' \in [Deliveries -> MailStatuses \cup {None}] /\ enrolled'[x] = "pending"
      /\ \A y \in Deliveries \ {x} : enrolled'[y] = enrolled[y]
  BY <1>1 DEF DeliveryInv, DeliveryTypeOK, MailStatuses
<1>5. Carries(x)'
  BY <1>1, <1>2, <1>3 DEF Carries, Approved, Terms, Papers, Admitted
<1>6. Leaves(x)'
  <2>1. mailed'[x] = None /\ document'[Offer(x)'] # None /\ delivery'[x].told = "lost"
    BY <1>1, <1>2, <1>3 DEF Leaves, Carries, Papers
  <2> QED
    BY <1>3, <1>4, <2>1 DEF Leaves
<1> QED
  BY <1>1, <1>3, <1>4, <1>5, <1>6, OneDelivery DEF DeliveryInv, DeliveryTypeOK

LEMMA MailInv ==
    ASSUME DeliveryInv, NEW x \in Deliveries, Mail(x)
    PROVE  DeliveryInv'
<1>1. /\ delivery[x].at = "mail" /\ UNCHANGED <<vars, document, enrolled>>
      /\ offers' = offers
  BY DEF Mail, vars
<1>2. /\ Carries(x) /\ Leaves(x) /\ Offer(x) \in OfferIds /\ offers[Offer(x)] # None
      /\ delivery[x].told = "lost"
  BY <1>1, InHand
<1>3. /\ delivery[x].paper = Terms(Offer(x)) /\ Approved(Offer(x)) /\ mailed[x] = None
      /\ enrolled[x] = "pending" /\ document[Offer(x)] # None
  BY <1>1, <1>2 DEF Carries, Leaves, Papers, Admitted
<1>4. Terms(Offer(x)) \in PossibleTerms /\ Terms(Offer(x)) # None
  BY <1>2, TermsTyped DEF DeliveryInv, DeliveryTypeOK
<1>5. PICK step \in {"sent", "failed"} :
          /\ Proceed(x, step)
          /\ \/ mailed' = [mailed EXCEPT ![x] = delivery[x].paper]
             \/ UNCHANGED mailed /\ step = "failed"
  BY DEF Mail
<1>6. /\ delivery' \in [Deliveries -> Delivery]
      /\ \A y \in Deliveries \ {x} : delivery'[y] = delivery[y]
      /\ delivery'[x].at = step /\ delivery'[x].req = delivery[x].req
      /\ delivery'[x].approved = delivery[x].approved
      /\ delivery'[x].paper = delivery[x].paper
      /\ delivery'[x].told = delivery[x].told /\ Offer(x)' = Offer(x)
  BY <1>1, <1>5, ProceedIs DEF DeliverySteps
<1>7. /\ mailed' \in [Deliveries -> PossibleTerms \cup {None}]
      /\ mailed'[x] = Terms(Offer(x)) \/ (mailed'[x] = None /\ step = "failed")
      /\ \A y \in Deliveries \ {x} : mailed'[y] = mailed[y]
  BY <1>3, <1>4, <1>5 DEF DeliveryInv, DeliveryTypeOK
<1>8. Carries(x)'
  BY <1>1, <1>2, <1>5, <1>6 DEF Carries, Approved, Terms, Papers, Admitted
<1>9. Terms(Offer(x))' = Terms(Offer(x)) /\ (Approved(Offer(x)) => Approved(Offer(x))')
  BY <1>1, <1>6 DEF Terms, Approved
<1>10. /\ enrolled'[x] = "pending" /\ document'[Offer(x)'] # None
       /\ delivery'[x].told = "lost"
  BY <1>1, <1>2, <1>3, <1>6
<1>11. "pending" # None
  BY TermsAssumption DEF MailStatuses
<1>12. Leaves(x)'
  BY <1>3, <1>4, <1>5, <1>6, <1>7, <1>9, <1>10, <1>11 DEF Leaves
<1> QED
  BY <1>1, <1>6, <1>7, <1>8, <1>12, OneDelivery DEF DeliveryInv, DeliveryTypeOK

LEMMA FinishInv ==
    ASSUME DeliveryInv, NEW x \in Deliveries, Finish(x)
    PROVE  DeliveryInv'
<1>1. /\ delivery[x].at \in {"sent", "failed"} /\ UNCHANGED <<vars, document, mailed>>
      /\ offers' = offers
      /\ enrolled' = [enrolled EXCEPT ![x] = delivery[x].at]
  BY DEF Finish, MailStatus, vars
<1>2. Carries(x) /\ Leaves(x)
  BY <1>1, InHand
<1>3. PICK result \in DeliveryResults :
          Close(x, result) /\ (result = "ok" => delivery[x].at = "sent")
  BY DEF Finish, DeliveryResults
<1>4. /\ delivery' \in [Deliveries -> Delivery]
      /\ \A y \in Deliveries \ {x} : delivery'[y] = delivery[y]
      /\ delivery'[x].at = "done" /\ delivery'[x].told = result
      /\ delivery'[x].req = delivery[x].req
      /\ Offer(x)' = Offer(x) /\ Carries(x)'
  BY <1>1, <1>3, CloseIs
<1>5. /\ enrolled' \in [Deliveries -> MailStatuses \cup {None}]
      /\ enrolled'[x] = delivery[x].at
      /\ \A y \in Deliveries \ {x} : enrolled'[y] = enrolled[y]
  BY <1>1 DEF DeliveryInv, DeliveryTypeOK, MailStatuses
<1>6. enrolled'[x] # None
  BY <1>1, <1>5, TermsAssumption DEF MailStatuses
<1>7. Terms(Offer(x))' = Terms(Offer(x)) /\ (Approved(Offer(x)) => Approved(Offer(x))')
  BY <1>1, <1>4 DEF Terms, Approved
<1>8. Leaves(x)'
  BY <1>1, <1>2, <1>3, <1>4, <1>5, <1>6, <1>7 DEF Leaves
<1> QED
  BY <1>1, <1>4, <1>5, <1>8, OneDelivery DEF DeliveryInv, DeliveryTypeOK

LEMMA DeliveryStepInv ==
    ASSUME DeliveryInv, NEW x \in Deliveries, DeliveryStep(x)
    PROVE  DeliveryInv'
<1>1. CASE GiveUp(x)
  BY <1>1, Closed DEF GiveUp, DeliveryResults
<1> QED
  BY <1>1, ReadForDeliveryInv, BuildInv, AdmitInv, FileInv, EnrolInv, MailInv, FinishInv
     DEF DeliveryStep

LEMMA DeliveryNextInv == Typed /\ DeliveryInv /\ [DeliveryNext]_allVars => DeliveryInv'
<1> SUFFICES ASSUME Typed, DeliveryInv, [DeliveryNext]_allVars PROVE DeliveryInv'
  OBVIOUS
<1>1. CASE Next /\ UNCHANGED deliveryVars
  BY <1>1, LifecycleStep
<1>2. ASSUME NEW x \in Deliveries, DeliveryStep(x) PROVE DeliveryInv'
  BY <1>2, DeliveryStepInv
<1>3. CASE UNCHANGED allVars
  BY <1>3, LifecycleStep DEF allVars
<1> QED
  BY <1>1, <1>2, <1>3 DEF DeliveryNext

(* The composition lets the offers live as they do alone.                  *)
LEMMA OffersAlone == DeliveryInit /\ [][DeliveryNext]_allVars => Spec
<1>1. DeliveryInit => Init
  BY DEF DeliveryInit
<1>2. [DeliveryNext]_allVars => [Next]_vars
  BY DEF DeliveryNext, DeliveryStep, ReadForDelivery, Build, Admit, File, Enrol, Mail, Finish,
     GiveUp, allVars
<1> QED
  BY <1>1, <1>2, PTL DEF Spec

THEOREM DeliveryInvariance == DeliverySpec => [](DeliveryInv /\ NoUnsanctionedApproval)
<1>1. DeliverySpec => Spec
  BY OffersAlone DEF DeliverySpec
<1>2. Spec => []Typed
  BY TypedInit, TypedNext, PTL DEF Spec
<1> QED
  BY <1>1, <1>2, DeliveryInitInv, DeliveryNextInv, ApprovalsAreSanctioned, PTL DEF DeliverySpec

(* Offers, documents, deliveries and requests in flight keep their types.  *)
THEOREM DeliveriesTyped == DeliverySpec => []DeliveryTypeOK
<1>1. DeliveryInv => DeliveryTypeOK
  BY DEF DeliveryInv
<1> QED
  BY <1>1, DeliveryInvariance, PTL

(***************************************************************************)
(* Every document on file and every mail that left states the terms of a   *)
(* sanctioned, approved offer, although the approval is read statements    *)
(* before the mail and the terms are read again in between.                *)
(***************************************************************************)
THEOREM SanctionedTermsLeave == DeliverySpec => []OnlySanctionedTermsLeave
<1>1. DeliveryInv /\ NoUnsanctionedApproval => OnlySanctionedTermsLeave
  <2> SUFFICES ASSUME DeliveryInv, NoUnsanctionedApproval, NEW o \in OfferIds, NEW paper,
                      paper # None,
                      \/ paper = document[o]
                      \/ \E x \in Deliveries : /\ delivery[x].req # None /\ Offer(x) = o
                                               /\ paper = mailed[x]
               PROVE  /\ o \in Rows /\ offers[o].status = "approved" /\ Sanctioned(o)
                      /\ paper = Terms(o)
    BY DEF OnlySanctionedTermsLeave, Offer
  <2>1. Approved(o) /\ paper = Terms(o)
    BY DEF DeliveryInv, Filed, Leaves
  <2> QED
    BY <2>1 DEF Approved, Rows, NoUnsanctionedApproval, Sanctioned
<1> QED
  BY <1>1, DeliveryInvariance, PTL

(***************************************************************************)
(* The log of deliveries never claims a mail that was not sent, and no     *)
(* mail leaves without a row and a document on file.                       *)
(***************************************************************************)
THEOREM LogTellsTheTruth == DeliverySpec => []LogAgreesWithMail
<1>1. DeliveryInv => LogAgreesWithMail
  BY DEF DeliveryInv, Leaves, LogAgreesWithMail, Offer
<1> QED
  BY <1>1, DeliveryInvariance, PTL
=============================================================================
