---------------------------- MODULE NoticesProofs -----------------------------
(***************************************************************************)
(* A write of a stage that is not cut short tells whom it should, and      *)
(* claims what it wrote: for any number of stages, deals, edits and        *)
(* concurrent writes.                                                      *)
(***************************************************************************)
EXTENDS Notices, FiniteSetTheorems, TLAPS

CallRec == [at : {"idle", "claim", "deals", "tell", "done"}, stage : Stages \cup {None},
            building : Buildings \cup {None}, report : Reports \cup {None},
            left : SUBSET Deals, told : SUBSET Deals, steady : SUBSET Deals,
            cut : {None, "claim", "deals", "tell"}]

(* What a write that stands at k knows of the deals that stayed active.    *)
Knows(k) ==
    /\ k.at = "idle" => k.cut = None
    /\ k.at \in {"claim", "deals", "tell"} => k.stage \in Stages /\ k.building \in Buildings
    /\ k.at = "claim" => k.steady = {} /\ k.report \in Reports
    /\ k.at = "deals" => k.steady \subseteq Active(deals, apartment, k.building)
    /\ k.at = "tell" /\ k.cut = None => k.steady \subseteq k.left \cup k.told
    /\ k.at = "done" /\ k.cut = None => k.steady \subseteq k.told

NoticesInv ==
    /\ deals \in [Deals -> DealRow \cup {None}]
    /\ apartment \in [Apartments -> Buildings \cup {None}]
    /\ DOMAIN stage = Stages /\ DOMAIN claimed = Stages
    /\ call \in [Calls -> CallRec]
    /\ \A c \in Calls : Knows(call[c])

(* A stage that never had two writers at once has one at most, which has   *)
(* claimed what it wrote unless it is about to; and what nobody writes and *)
(* nobody failed to claim is claimed.                                      *)
Follows(s) ==
    /\ \A c, d \in Writers(s) : c = d
    /\ \A c \in Writers(s) :
          IF call[c].at = "claim" THEN call[c].report = stage[s].report
                                  ELSE claimed[s] = Fingerprint(stage[s].report)
    /\ /\ stage[s] # None /\ Writers(s) = {}
       /\ \A c \in Calls : call[c].stage = s => call[c].cut # "claim"
       => claimed[s] = Fingerprint(stage[s].report)

FollowsInv == \A s \in Stages \ overlapped : Follows(s)
-----------------------------------------------------------------------------
LEMMA CallTyped ==
    ASSUME NoticesInv, NEW c \in Calls
    PROVE  call[c] \in CallRec /\ Knows(call[c])
  BY DEF NoticesInv

LEMMA FinishedTyped ==
    ASSUME NEW k \in CallRec
    PROVE  /\ Finished(k) \in CallRec /\ Finished(k).at = "done"
           /\ Finished(k).stage = k.stage /\ Finished(k).told = k.told
           /\ Finished(k).steady = k.steady /\ Finished(k).cut = k.cut
  BY DEF CallRec, Finished, Idle

(* A call goes on: what the others know stays true.                        *)
LEMMA GoesOn ==
    ASSUME NoticesInv, NEW c \in Calls, NEW k \in CallRec, Knows(k),
           call' = [call EXCEPT ![c] = k], UNCHANGED <<deals, apartment>>,
           DOMAIN stage' = Stages, DOMAIN claimed' = Stages
    PROVE  NoticesInv'
  <1>1. call' \in [Calls -> CallRec]
    BY DEF NoticesInv
  <1>2. ASSUME NEW d \in Calls PROVE Knows(call'[d])
    BY DEF NoticesInv
  <1>3. \A d \in Calls : Knows(call[d])'
    BY <1>2 DEF Knows, Active
  <1>4. QED BY <1>1, <1>3 DEF NoticesInv

(* Who is not told is told now, or was not to be told.                     *)
LEMMA TellingKnows ==
    ASSUME NEW k \in CallRec, k.stage \in Stages, k.building \in Buildings,
           k.cut = None => k.steady \subseteq k.left \cup k.told
    PROVE  /\ Telling(k) \in CallRec /\ Knows(Telling(k))
           /\ Telling(k).at \in {"tell", "done"} /\ Telling(k).stage = k.stage
           /\ Telling(k).cut = k.cut
  <1>1. CASE k.left = {}
    <2>1. Telling(k) = Finished(k)  BY <1>1 DEF Telling
    <2>2. QED BY <1>1, <2>1, FinishedTyped DEF Knows
  <1>2. CASE k.left # {}
    <2>1. Telling(k) = [k EXCEPT !.at = "tell"]  BY <1>2 DEF Telling
    <2>2. /\ Telling(k) \in CallRec /\ Telling(k).at = "tell"
          /\ Telling(k).stage = k.stage /\ Telling(k).building = k.building
          /\ Telling(k).left = k.left /\ Telling(k).told = k.told
          /\ Telling(k).steady = k.steady /\ Telling(k).cut = k.cut
      BY <2>1 DEF CallRec
    <2>3. QED BY <2>2 DEF Knows
  <1>3. QED BY <1>1, <1>2

-----------------------------------------------------------------------------
(* What each step does to calls and claims.                                *)

(* Call c of stage s goes on to k, claiming what it wrote if that is next. *)
Advances(c, k) ==
    LET s == call[c].stage IN
    /\ c \in InFlight
    /\ k \in CallRec /\ k.at \in {"deals", "tell", "done"} /\ k.stage = s
    /\ call' = [call EXCEPT ![c] = k]
    /\ DOMAIN claimed' = Stages
    /\ \A t \in Stages \ {s} : claimed'[t] = claimed[t]
    /\ IF call[c].at = "claim"
       THEN \/ claimed'[s] = Fingerprint(call[c].report)
            \/ k.at = "done" /\ k.cut = "claim"
       ELSE claimed'[s] = claimed[s]
    /\ UNCHANGED <<deals, apartment, stage, overlapped>>

LEMMA ClaimAdvances ==
    ASSUME NoticesInv, NEW c \in Calls, ClaimConstructionState(c)
    PROVE  \E k : Advances(c, k) /\ Knows(k)
  <1>1. /\ call[c] \in CallRec /\ Knows(call[c]) /\ call[c].at = "claim" /\ c \in InFlight
        /\ DOMAIN claimed = Stages /\ call[c].stage \in Stages /\ call[c].building \in Buildings
        /\ UNCHANGED <<deals, apartment, stage, overlapped>>
    BY CallTyped DEF ClaimConstructionState, tables, Knows, InFlight, NoticesInv
  <1>2. PICK s, r : s = call[c].stage /\ r = call[c].report  OBVIOUS
  <1>3. /\ Finished(call[c]) \in CallRec /\ Knows(Finished(call[c]))
        /\ Finished(call[c]).at = "done" /\ Finished(call[c]).stage = s
    BY <1>1, <1>2, FinishedTyped DEF Knows
  <1>4. CASE claimed[s] = Fingerprint(r) /\ call' = [call EXCEPT ![c] = Finished(@)]
             /\ UNCHANGED claimed
    <2>1. call' = [call EXCEPT ![c] = Finished(call[c])]  BY <1>4
    <2>2. Advances(c, Finished(call[c]))
      BY <1>1, <1>2, <1>3, <1>4, <2>1 DEF Advances
    <2>3. QED BY <1>3, <2>2
  <1>5. CASE claimed' = [claimed EXCEPT ![s] = Fingerprint(r)]
             /\ call' = [call EXCEPT ![c] = Finished(@)]
    <2>1. call' = [call EXCEPT ![c] = Finished(call[c])]  BY <1>5
    <2>2. Advances(c, Finished(call[c]))
      BY <1>1, <1>2, <1>3, <1>5, <2>1 DEF Advances
    <2>3. QED BY <1>3, <2>2
  <1>6. CASE claimed' = [claimed EXCEPT ![s] = Fingerprint(r)]
             /\ call' = [call EXCEPT ![c] = [@ EXCEPT !.at = "deals",
                            !.steady = Active(deals, apartment, call[c].building)]]
    <2>1. PICK k : k = [call[c] EXCEPT !.at = "deals",
                            !.steady = Active(deals, apartment, call[c].building)]
      OBVIOUS
    <2>2. Active(deals, apartment, call[c].building) \subseteq Deals  BY DEF Active
    <2>3. /\ k \in CallRec /\ k.at = "deals" /\ k.stage = s
          /\ k.building = call[c].building
          /\ k.steady = Active(deals, apartment, call[c].building)
      BY <1>1, <1>2, <2>1, <2>2 DEF CallRec
    <2>4. call' = [call EXCEPT ![c] = k]  BY <1>6, <2>1
    <2>5. Advances(c, k)  BY <1>1, <1>2, <1>6, <2>3, <2>4 DEF Advances
    <2>6. Knows(k)  BY <1>1, <1>2, <2>3 DEF Knows
    <2>7. QED BY <2>5, <2>6
  <1>7. QED BY <1>2, <1>4, <1>5, <1>6 DEF ClaimConstructionState, Changes

LEMMA ReadDealsAdvances ==
    ASSUME NoticesInv, NEW c \in Calls, ReadDeals(c)
    PROVE  \E k : Advances(c, k) /\ Knows(k)
  <1>1. /\ call[c] \in CallRec /\ Knows(call[c]) /\ call[c].at = "deals" /\ c \in InFlight
        /\ DOMAIN claimed = Stages /\ call[c].stage \in Stages /\ call[c].building \in Buildings
        /\ UNCHANGED <<deals, apartment, stage, claimed, overlapped>>
    BY CallTyped DEF ReadDeals, tables, Knows, InFlight, NoticesInv
  <1>2. PICK ds, k : /\ ds = Listed(deals, apartment, call[c].building)
                     /\ k = [call[c] EXCEPT !.left = ds]
    OBVIOUS
  <1>3. ds \in SUBSET Deals /\ Active(deals, apartment, call[c].building) \subseteq ds
    BY <1>2 DEF Listed, Active, NoticesInv, DealRow, DealStatuses
  <1>4. /\ k \in CallRec /\ k.stage = call[c].stage /\ k.building = call[c].building
        /\ k.left = ds /\ k.steady = call[c].steady
    BY <1>1, <1>2, <1>3 DEF CallRec
  <1>5. k.steady \subseteq k.left  BY <1>1, <1>3, <1>4 DEF Knows
  <1>6. call' = [call EXCEPT ![c] = Telling(k)]  BY <1>2 DEF ReadDeals
  <1>7. /\ Telling(k) \in CallRec /\ Knows(Telling(k))
        /\ Telling(k).at \in {"tell", "done"} /\ Telling(k).stage = k.stage
    BY <1>1, <1>4, <1>5, TellingKnows
  <1>8. Advances(c, Telling(k))  BY <1>1, <1>4, <1>6, <1>7 DEF Advances
  <1>9. QED BY <1>7, <1>8

LEMMA TellAdvances ==
    ASSUME NoticesInv, NEW c \in Calls, NEW d \in Deals, Tell(c, d)
    PROVE  \E k : Advances(c, k) /\ Knows(k)
  <1>1. /\ call[c] \in CallRec /\ Knows(call[c]) /\ call[c].at = "tell" /\ c \in InFlight
        /\ DOMAIN claimed = Stages /\ call[c].stage \in Stages /\ call[c].building \in Buildings
        /\ UNCHANGED <<deals, apartment, stage, claimed, overlapped>>
    BY CallTyped DEF Tell, tables, Knows, InFlight, NoticesInv
  <1>2. ASSUME NEW k \in CallRec, k.stage = call[c].stage, k.building = call[c].building,
               k.cut = None => k.steady \subseteq k.left \cup k.told,
               call' = [call EXCEPT ![c] = Telling(k)]
        PROVE  \E l : Advances(c, l) /\ Knows(l)
    <2>1. /\ Telling(k) \in CallRec /\ Knows(Telling(k))
          /\ Telling(k).at \in {"tell", "done"} /\ Telling(k).stage = k.stage
      BY <1>1, <1>2, TellingKnows
    <2>2. Advances(c, Telling(k))  BY <1>1, <1>2, <2>1 DEF Advances
    <2>3. QED BY <2>1, <2>2
  <1>3. CASE call' = [call EXCEPT ![c] = Telling([[call[c] EXCEPT !.left = @ \ {d}]
                                                   EXCEPT !.told = @ \cup {d}])]
    <2>1. PICK k : k = [[call[c] EXCEPT !.left = @ \ {d}] EXCEPT !.told = @ \cup {d}]
      OBVIOUS
    <2>2. /\ k \in CallRec /\ k.stage = call[c].stage /\ k.building = call[c].building
          /\ k.left = call[c].left \ {d} /\ k.told = call[c].told \cup {d}
          /\ k.steady = call[c].steady /\ k.cut = call[c].cut
      BY <1>1, <2>1 DEF CallRec
    <2>3. k.cut = None => k.steady \subseteq k.left \cup k.told
      BY <1>1, <2>2 DEF Knows
    <2>4. QED BY <1>2, <1>3, <2>1, <2>2, <2>3
  <1>4. CASE call' = [call EXCEPT ![c] = Telling([[call[c] EXCEPT !.left = @ \ {d}]
                                                   EXCEPT !.cut = "tell"])]
    <2>1. PICK k : k = [[call[c] EXCEPT !.left = @ \ {d}] EXCEPT !.cut = "tell"]
      OBVIOUS
    <2>2. /\ k \in CallRec /\ k.stage = call[c].stage /\ k.building = call[c].building
          /\ k.cut = "tell" /\ k.cut # None
      BY <1>1, <2>1, NoneAssumption DEF CallRec
    <2>3. QED BY <1>2, <1>4, <2>1, <2>2
  <1>5. QED BY <1>3, <1>4 DEF Tell

LEMMA CutShortAdvances ==
    ASSUME NoticesInv, NEW c \in Calls, CutShort(c)
    PROVE  \E k : Advances(c, k) /\ Knows(k)
  <1>1. /\ call[c] \in CallRec /\ Knows(call[c]) /\ c \in InFlight
        /\ call[c].at \in {"claim", "deals", "tell"}
        /\ DOMAIN claimed = Stages /\ call[c].stage \in Stages
        /\ UNCHANGED <<deals, apartment, stage, claimed, overlapped>>
    BY CallTyped DEF CutShort, tables, Knows, InFlight, NoticesInv, CallRec
  <1>2. PICK k : k = [call[c] EXCEPT !.cut = call[c].at]  OBVIOUS
  <1>3. k \in CallRec /\ k.stage = call[c].stage /\ k.cut = call[c].at
    BY <1>1, <1>2 DEF CallRec
  <1>4. k.cut # None  BY <1>1, <1>3, NoneAssumption
  <1>5. call' = [call EXCEPT ![c] = Finished(k)]  BY <1>2 DEF CutShort
  <1>6. /\ Finished(k) \in CallRec /\ Finished(k).at = "done"
        /\ Finished(k).stage = k.stage /\ Finished(k).cut = k.cut
    BY <1>3, FinishedTyped
  <1>7. Advances(c, Finished(k))  BY <1>1, <1>3, <1>5, <1>6 DEF Advances
  <1>8. Knows(Finished(k))  BY <1>4, <1>6 DEF Knows
  <1>9. QED BY <1>7, <1>8

LEMMA AdvancesInv ==
    ASSUME NoticesInv, NEW c \in Calls, NEW k, Advances(c, k), Knows(k)
    PROVE  NoticesInv'
  <1>1. DOMAIN stage' = Stages  BY DEF Advances, NoticesInv
  <1>2. QED BY <1>1, GoesOn DEF Advances

(* A writer of stage s, and no other, goes on.                             *)
LEMMA AdvancesFollows ==
    ASSUME NoticesInv, FollowsInv, NEW c \in Calls, NEW k, Advances(c, k)
    PROVE  FollowsInv'
  <1>1. PICK s : s = call[c].stage  OBVIOUS
  <1>2. /\ s \in Stages /\ c \in Writers(s) /\ c \in InFlight /\ k.stage = s
        /\ k.at \in {"deals", "tell", "done"}
        /\ UNCHANGED <<stage, overlapped>>
        /\ \A t \in Stages \ {s} : claimed'[t] = claimed[t]
    BY <1>1, CallTyped DEF Advances, Writers, InFlight, Knows, CallRec
  <1>3. \A d \in Calls : call'[d] = IF d = c THEN k ELSE call[d]
    BY DEF Advances, NoticesInv
  <1>4. InFlight' = IF k.at = "done" THEN InFlight \ {c} ELSE InFlight
    BY <1>2, <1>3 DEF InFlight
  <1>5. \A t \in Stages : Writers(t)' = {d \in InFlight' : call'[d].stage = t}
    BY DEF Writers
  <1>6. ASSUME NEW t \in Stages \ overlapped', t # s PROVE Follows(t)'
    <2>1. Writers(t)' = Writers(t) /\ c \notin Writers(t)
      BY <1>1, <1>2, <1>3, <1>4, <1>5, <1>6 DEF Writers, InFlight
    <2>2. \A d \in Writers(t) : d \in Calls /\ call'[d] = call[d]
      BY <1>3, <2>1 DEF Writers, InFlight
    <2>3. Follows(t) /\ claimed'[t] = claimed[t] /\ stage' = stage
      BY <1>2, <1>6 DEF FollowsInv
    <2>4. (\A d \in Calls : call'[d].stage = t => call'[d].cut # "claim")
          => \A d \in Calls : call[d].stage = t => call[d].cut # "claim"
      BY <1>1, <1>2, <1>3, <1>6
    <2>5. QED BY <2>1, <2>2, <2>3, <2>4 DEF Follows
  <1>7. ASSUME s \notin overlapped' PROVE Follows(s)'
    <2>1. Follows(s)  BY <1>2, <1>7 DEF FollowsInv
    <2>2. Writers(s) = {c}  BY <1>2, <2>1 DEF Follows
    <2>3. Writers(s)' = IF k.at = "done" THEN {} ELSE {c}
      <3>1. ASSUME NEW d \in Writers(s)' PROVE d = c /\ k.at # "done"
        <4>1. d \in InFlight' /\ call'[d].stage = s  BY <1>2, <1>5
        <4>2. d \in Calls /\ d \in InFlight  BY <1>4, <4>1 DEF InFlight
        <4>3. d \in Writers(s)  BY <1>2, <1>3, <4>1, <4>2 DEF Writers
        <4>4. d = c  BY <2>2, <4>3
        <4>5. QED BY <1>4, <4>1, <4>4
      <3>2. k.at # "done" => c \in Writers(s)'
        BY <1>2, <1>3, <1>4, <1>5
      <3>3. QED BY <3>1, <3>2
    <2>4. \/ claimed'[s] = Fingerprint(stage[s].report)
          \/ k.at = "done" /\ k.cut = "claim"
      BY <1>1, <2>1, <2>2 DEF Follows, Advances
    <2>5. call'[c] = k  BY <1>3
    <2>6. QED BY <1>2, <2>3, <2>4, <2>5 DEF Follows
  <1>8. QED BY <1>2, <1>6, <1>7 DEF FollowsInv


-----------------------------------------------------------------------------
(* Catalogue steps and new writes.                                         *)

LEMMA WatchKnows ==
    ASSUME NoticesInv, NEW rows, NEW aps, deals' = rows, apartment' = aps, Watch(rows, aps)
    PROVE  /\ call' \in [Calls -> CallRec]
           /\ \A c \in Calls : Knows(call[c])'
           /\ \A c \in Calls : /\ call'[c].at = call[c].at /\ call'[c].stage = call[c].stage
                               /\ call'[c].report = call[c].report /\ call'[c].cut = call[c].cut
  <1>1. ASSUME NEW c \in Calls
        PROVE  /\ call'[c] \in CallRec
               /\ \/ call'[c] = call[c] /\ c \notin InFlight
                  \/ call'[c] = [call[c] EXCEPT !.steady = @ \cap Active(rows, aps, call[c].building)]
    <2>1. call[c] \in CallRec  BY CallTyped
    <2>2. \/ call'[c] = call[c] /\ c \notin InFlight
          \/ call'[c] = [call[c] EXCEPT !.steady = @ \cap Active(rows, aps, call[c].building)]
      BY DEF Watch
    <2>3. [call[c] EXCEPT !.steady = @ \cap Active(rows, aps, call[c].building)] \in CallRec
      BY <2>1 DEF CallRec
    <2>4. QED BY <2>1, <2>2, <2>3
  <1>2. ASSUME NEW c \in Calls
        PROVE  /\ call'[c].at = call[c].at /\ call'[c].stage = call[c].stage
               /\ call'[c].building = call[c].building
               /\ call'[c].report = call[c].report /\ call'[c].cut = call[c].cut
               /\ call'[c].left = call[c].left /\ call'[c].told = call[c].told
               /\ call'[c].steady \subseteq call[c].steady
               /\ c \in InFlight =>
                     call'[c].steady \subseteq Active(rows, aps, call[c].building)
    <2>1. PICK k, A : k = call[c] /\ A = Active(rows, aps, call[c].building)  OBVIOUS
    <2>2. k \in CallRec  BY <2>1, CallTyped
    <2>3. PICK l : l = [k EXCEPT !.steady = @ \cap A]  OBVIOUS
    <2>4. /\ l.at = k.at /\ l.stage = k.stage /\ l.building = k.building
          /\ l.report = k.report /\ l.cut = k.cut /\ l.left = k.left /\ l.told = k.told
          /\ l.steady = k.steady \cap A
      BY <2>2, <2>3 DEF CallRec
    <2>5. (call'[c] = k /\ c \notin InFlight) \/ call'[c] = l
      BY <1>1, <2>1, <2>3
    <2>6. QED BY <2>1, <2>4, <2>5
  <1>3. ASSUME NEW c \in Calls PROVE Knows(call[c])'
    <2>1. Knows(call[c])  BY CallTyped
    <2>2. call[c].at = "deals" => c \in InFlight  BY DEF InFlight
    <2>3. call'[c].at = "deals" => call'[c].steady \subseteq Active(deals', apartment', call'[c].building)
      BY <1>2, <2>2
    <2>4. QED BY <1>2, <2>1, <2>3 DEF Knows, Active
  <1>4. call' \in [Calls -> CallRec]
    <2>1. call' = [c \in Calls |-> call'[c]]  BY DEF Watch
    <2>2. QED BY <1>1, <2>1
  <1>5. QED BY <1>1, <1>2, <1>3, <1>4

(* A new row is active for those it is active for; no other row changes.   *)
LEMMA NewRowsKnow ==
    ASSUME NoticesInv, UNCHANGED call,
           \A b \in Buildings : Active(deals, apartment, b) \subseteq Active(deals', apartment', b)
    PROVE  \A c \in Calls : Knows(call[c])'
  <1>1. ASSUME NEW c \in Calls PROVE Knows(call[c])'
    <2>1. Knows(call[c]) /\ call'[c] = call[c]  BY CallTyped
    <2>2. call'[c].at = "deals" => call'[c].steady \subseteq Active(deals', apartment', call'[c].building)
      BY <2>1 DEF Knows
    <2>3. QED BY <2>1, <2>2 DEF Knows, Active
  <1>2. QED BY <1>1

LEMMA SameFollows ==
    ASSUME FollowsInv, UNCHANGED <<stage, claimed, overlapped>>,
           \A c \in Calls : /\ call'[c].at = call[c].at /\ call'[c].stage = call[c].stage
                            /\ call'[c].report = call[c].report /\ call'[c].cut = call[c].cut
    PROVE  FollowsInv'
  <1>1. \A s \in Stages : Writers(s)' = Writers(s) /\ Writers(s) \subseteq Calls
    BY DEF Writers, InFlight
  <1>2. ASSUME NEW s \in Stages \ overlapped' PROVE Follows(s)'
    BY <1>1, <1>2 DEF Follows, FollowsInv
  <1>3. QED BY <1>2 DEF FollowsInv

LEMMA CatalogueStepInv ==
    ASSUME NoticesInv, FollowsInv, CatalogueStep
    PROVE  NoticesInv' /\ FollowsInv'
  <1>1. UNCHANGED <<stage, claimed, overlapped>>
    BY DEF CatalogueStep, CreateComplex, CreateBuilding, UpdateBuilding, CreateApartment,
           UpdateApartment, CreateDeal, UpdateDealStatus, notified
  <1>2. ASSUME deals' \in [Deals -> DealRow \cup {None}],
               apartment' \in [Apartments -> Buildings \cup {None}],
               Watch(deals', apartment')
        PROVE  NoticesInv' /\ FollowsInv'
    <2>1. PICK rows, aps : deals' = rows /\ apartment' = aps  OBVIOUS
    <2>2. Watch(rows, aps)  BY <1>2, <2>1
    <2>3. /\ call' \in [Calls -> CallRec]
          /\ \A c \in Calls : Knows(call[c])'
          /\ \A c \in Calls : /\ call'[c].at = call[c].at /\ call'[c].stage = call[c].stage
                              /\ call'[c].report = call[c].report /\ call'[c].cut = call[c].cut
      BY <2>1, <2>2, WatchKnows
    <2>4. QED BY <1>1, <1>2, <2>3, SameFollows DEF NoticesInv
  <1>3. ASSUME deals' \in [Deals -> DealRow \cup {None}],
               apartment' \in [Apartments -> Buildings \cup {None}],
               UNCHANGED call,
               \A b \in Buildings :
                  Active(deals, apartment, b) \subseteq Active(deals', apartment', b)
        PROVE  NoticesInv' /\ FollowsInv'
    <2>1. \A c \in Calls : Knows(call[c])'  BY <1>3, NewRowsKnow
    <2>2. QED BY <1>1, <1>3, <2>1, SameFollows DEF NoticesInv
  <1>4. CASE UNCHANGED <<deals, apartment, call>>
    BY <1>3, <1>4 DEF NoticesInv
  <1>5. ASSUME NEW a \in Apartments, NEW b \in Buildings, CreateApartment(a, b)
        PROVE  NoticesInv' /\ FollowsInv'
    <2>1. /\ apartment[a] = None /\ apartment' = [apartment EXCEPT ![a] = b]
          /\ UNCHANGED <<deals, call>>
      BY <1>5 DEF CreateApartment
    <2>2. ASSUME NEW e \in Buildings
          PROVE  Active(deals, apartment, e) \subseteq Active(deals', apartment', e)
      BY <2>1, NoneAssumption DEF Active, NoticesInv, DealRow
    <2>3. QED BY <1>3, <2>1, <2>2 DEF NoticesInv
  <1>6. ASSUME NEW a \in Apartments, NEW b \in Buildings, UpdateApartment(a, b)
        PROVE  NoticesInv' /\ FollowsInv'
    <2>1. /\ apartment' = [apartment EXCEPT ![a] = b] /\ UNCHANGED deals
          /\ Watch(deals, apartment')
      BY <1>6 DEF UpdateApartment
    <2>2. Watch(deals', apartment')  BY <2>1
    <2>3. QED BY <1>2, <2>1, <2>2 DEF NoticesInv
  <1>7. ASSUME NEW d \in Deals, NEW u \in Clients, NEW a \in Apartments, CreateDeal(d, u, a)
        PROVE  NoticesInv' /\ FollowsInv'
    <2>1. /\ deals[d] = None /\ UNCHANGED <<apartment, call>>
          /\ deals' = [deals EXCEPT ![d] = [client |-> u, apartment |-> a, status |-> "pending"]]
          /\ [client |-> u, apartment |-> a, status |-> "pending"] \in DealRow
      BY <1>7 DEF CreateDeal, DealRow, DealStatuses
    <2>2. ASSUME NEW e \in Buildings
          PROVE  Active(deals, apartment, e) \subseteq Active(deals', apartment', e)
      BY <2>1 DEF Active, NoticesInv
    <2>3. QED BY <1>3, <2>1, <2>2 DEF NoticesInv
  <1>8. ASSUME NEW d \in Deals, NEW status \in DealStatuses, UpdateDealStatus(d, status)
        PROVE  NoticesInv' /\ FollowsInv'
    <2>1. /\ deals' = [deals EXCEPT ![d].status = status] /\ UNCHANGED apartment
          /\ deals[d] # None /\ Watch(deals', apartment)
      BY <1>8 DEF UpdateDealStatus
    <2>2. deals' \in [Deals -> DealRow \cup {None}]
      <3>1. deals[d] \in DealRow  BY <2>1 DEF NoticesInv
      <3>2. [deals[d] EXCEPT !.status = status] \in DealRow  BY <3>1 DEF DealRow
      <3>3. deals' = [deals EXCEPT ![d] = [deals[d] EXCEPT !.status = status]]
        BY <2>1
      <3>4. QED BY <3>2, <3>3 DEF NoticesInv
    <2>3. Watch(deals', apartment')  BY <2>1
    <2>4. QED BY <1>2, <2>1, <2>2, <2>3 DEF NoticesInv
  <1>9. QED BY <1>4, <1>5, <1>6, <1>7, <1>8 DEF CatalogueStep, CreateComplex, CreateBuilding,
               UpdateBuilding

LEMMA WriteInv ==
    ASSUME NoticesInv, FollowsInv, NEW c \in Calls, call[c].at = "idle",
           NEW s \in Stages, NEW b \in Buildings, NEW r \in Reports, Write(c, s, b, r)
    PROVE  NoticesInv' /\ FollowsInv'
  <1>1. PICK k : k = [Idle EXCEPT !.at = "claim", !.stage = s, !.building = b, !.report = r]
    OBVIOUS
  <1>2. /\ k \in CallRec /\ k.at = "claim" /\ k.stage = s /\ k.building = b /\ k.report = r
        /\ k.steady = {} /\ k.cut = None
    BY <1>1 DEF CallRec, Idle
  <1>3. /\ call' = [call EXCEPT ![c] = k]
        /\ stage' = [stage EXCEPT ![s] = [building |-> b, report |-> r]]
        /\ overlapped' = IF Writers(s) = {} THEN overlapped ELSE overlapped \cup {s}
        /\ UNCHANGED <<deals, apartment, claimed>>
    BY <1>1 DEF Write, tables
  <1>4. Knows(k)  BY <1>2 DEF Knows
  <1>5. NoticesInv'
    <2>1. DOMAIN stage' = Stages /\ DOMAIN claimed' = Stages  BY <1>3 DEF NoticesInv
    <2>2. QED BY <1>2, <1>3, <1>4, <2>1, GoesOn
  <1>6. \A d \in Calls : call'[d] = IF d = c THEN k ELSE call[d]
    BY <1>3 DEF NoticesInv
  <1>7. c \notin InFlight /\ InFlight' = InFlight \cup {c}
    BY <1>2, <1>6 DEF InFlight
  <1>8. ASSUME NEW t \in Stages PROVE Writers(t)' = Writers(t) \cup (IF t = s THEN {c} ELSE {})
    <2>1. Writers(t)' = {d \in InFlight' : call'[d].stage = t}  BY DEF Writers
    <2>2. \A d \in InFlight : d \in Calls /\ d # c  BY <1>7 DEF InFlight
    <2>3. QED BY <1>2, <1>6, <1>7, <2>1, <2>2 DEF Writers
  <1>9. ASSUME NEW t \in Stages \ overlapped', t # s PROVE Follows(t)'
    <2>1. /\ Follows(t) /\ Writers(t)' = Writers(t) /\ c \notin Writers(t)
          /\ stage'[t] = stage[t] /\ Writers(t) \subseteq Calls
      BY <1>3, <1>7, <1>8, <1>9 DEF FollowsInv, NoticesInv, Writers, InFlight
    <2>2. \A d \in Writers(t) : call'[d] = call[d]  BY <1>6, <2>1
    <2>3. Writers(t) = {} /\ (\A d \in Calls : call'[d].stage = t => call'[d].cut # "claim")
          => \A d \in Calls : call[d].stage = t => call[d].cut # "claim"
      <3>1. call[c].cut # "claim"  BY CallTyped, NoneAssumption DEF Knows
      <3>2. QED BY <1>6, <3>1
    <2>4. QED BY <1>3, <2>1, <2>2, <2>3 DEF Follows
  <1>10. ASSUME s \notin overlapped' PROVE Follows(s)'
    <2>1. Writers(s) = {}  BY <1>3, <1>10
    <2>2. Writers(s)' = {c}  BY <1>8, <2>1
    <2>3. call'[c].at = "claim" /\ call'[c].report = r /\ stage'[s].report = r
      BY <1>2, <1>3, <1>6 DEF NoticesInv
    <2>4. QED BY <2>2, <2>3 DEF Follows
  <1>11. QED BY <1>5, <1>9, <1>10 DEF FollowsInv

-----------------------------------------------------------------------------
LEMMA InitInv == Init => NoticesInv /\ FollowsInv
  <1> SUFFICES ASSUME Init PROVE NoticesInv /\ FollowsInv
    OBVIOUS
  <1>1. Idle \in CallRec /\ Knows(Idle) /\ Idle.at = "idle"
    BY DEF Idle, CallRec, Knows
  <1>2. NoticesInv  BY <1>1 DEF Init, NoticesInv
  <1>3. \A s \in Stages : stage[s] = None /\ Writers(s) = {}
    BY <1>1 DEF Init, Writers, InFlight
  <1>4. FollowsInv  BY <1>3 DEF FollowsInv, Follows
  <1>5. QED BY <1>2, <1>4

LEMMA StageStepInv ==
    ASSUME NoticesInv, FollowsInv, NEW c \in Calls, StageStep(c)
    PROVE  NoticesInv' /\ FollowsInv'
  <1>1. CASE \E k : Advances(c, k) /\ Knows(k)
    BY <1>1, AdvancesInv, AdvancesFollows
  <1>2. CASE \E s \in Stages, b \in Buildings, r \in Reports :
                CreateProgress(c, s, b, r) \/ UpdateProgress(c, s, b, r)
    BY <1>2, WriteInv DEF CreateProgress, UpdateProgress
  <1>3. QED BY <1>1, <1>2, ClaimAdvances, ReadDealsAdvances, TellAdvances, CutShortAdvances
            DEF StageStep

LEMMA QuietInv ==
    ASSUME NoticesInv, FollowsInv,
           UNCHANGED <<deals, apartment, stage, claimed, call, overlapped>>
    PROVE  NoticesInv' /\ FollowsInv'
  <1>1. NoticesInv'  BY DEF NoticesInv, Knows, Active
  <1>2. FollowsInv'  BY SameFollows
  <1>3. QED BY <1>1, <1>2

LEMMA NoticesInvariant == Spec => [](NoticesInv /\ FollowsInv)
  <1>1. NoticesInv /\ FollowsInv /\ [Next]_vars => (NoticesInv /\ FollowsInv)'
    <2> SUFFICES ASSUME NoticesInv, FollowsInv, [Next]_vars
                 PROVE  (NoticesInv /\ FollowsInv)'
      OBVIOUS
    <2>1. CASE CatalogueStep  BY <2>1, CatalogueStepInv
    <2>2. ASSUME NEW c \in Calls, StageStep(c) PROVE (NoticesInv /\ FollowsInv)'
      BY <2>2, StageStepInv
    <2>3. ASSUME NEW u \in Clients, ReadingStep(u) PROVE (NoticesInv /\ FollowsInv)'
      BY <2>3, QuietInv DEF ReadingStep, MarkAsRead, MarkAllAsRead, tables
    <2>4. CASE UNCHANGED vars  BY <2>4, QuietInv DEF vars
    <2>5. QED BY <2>1, <2>2, <2>3, <2>4 DEF Next
  <1>2. QED BY <1>1, InitInv, PTL DEF Spec

(* A write whose statements all succeed tells every deal that was active   *)
(* in its building from the claim to the end, for any number of deals,     *)
(* apartments and edits between the claim, the list and the notices        *)
(* (service/notification.go).                                              *)
THEOREM SteadyDealsTold == Spec => []SteadyDealsAreTold
  <1>1. NoticesInv => SteadyDealsAreTold
    BY DEF NoticesInv, Knows, SteadyDealsAreTold
  <1>2. QED BY <1>1, NoticesInvariant, PTL

(* The claimed fingerprint of a stage is that of its stored report between *)
(* writes, unless two of them overlapped or one was cut short before its   *)
(* claim: for any number of stages, reports and writes                     *)
(* (handler/construction.go, repository/notification.go).                  *)
THEOREM ClaimsFollowStages == Spec => []ClaimFollowsStage
  <1>1. FollowsInv => ClaimFollowsStage
    BY DEF FollowsInv, Follows, ClaimFollowsStage
  <1>2. QED BY <1>1, NoticesInvariant, PTL
-----------------------------------------------------------------------------
(* A notice and a turn of its stage.                                       *)

IsNotice(n) ==
    \E c \in Calls, d \in Deals, s \in Stages : \E u, t, b :
        n = [write |-> c, client |-> u, deal |-> d, stage |-> s, text |-> t, read |-> b]

(* Every claim is a turn, and the last one is what is claimed.             *)
ClaimsOK ==
    /\ claims \in [Stages -> Seq(Reports)]
    /\ \A s \in Stages :
          /\ claims[s] # <<>> => claimed[s] = Fingerprint(claims[s][Len(claims[s])])
          /\ \A i \in 2..Len(claims[s]) :
                Fingerprint(claims[s][i]) # Fingerprint(claims[s][i - 1])

(* A write leaves a deal one notice, and then the deal is not to be told.  *)
NoticesOK ==
    /\ \A n \in notices :
          /\ IsNotice(n)
          /\ call[n.write].at \in {"tell", "done"} /\ n.deal \notin call[n.write].left
    /\ \A n, m \in notices : n.write = m.write /\ n.deal = m.deal => n = m

(* f[c] is the claim that write c made, 0 if it made none: no two writes   *)
(* made one claim, and what a write tells, or will tell, reads like its.   *)
MadeClaims(f) ==
    /\ f \in [Calls -> Nat]
    /\ \A c \in Calls :
          /\ call[c].at \in {"idle", "claim"} => f[c] = 0
          /\ f[c] # 0 => call[c].stage \in Stages /\ f[c] \in DOMAIN claims[call[c].stage]
          /\ call[c].at \in {"deals", "tell"} =>
                f[c] # 0 /\ Text(claims[call[c].stage][f[c]]) = Text(call[c].report)
    /\ \A c, d \in Calls :
          f[c] # 0 /\ f[c] = f[d] /\ call[c].stage = call[d].stage => c = d
    /\ \A n \in notices :
          /\ f[n.write] # 0 /\ call[n.write].stage = n.stage
          /\ Text(claims[n.stage][f[n.write]]) = n.text

TurnsInv == ClaimsOK /\ NoticesOK /\ \E f : MadeClaims(f)

LEMMA NoticeFields ==
    ASSUME NEW n, IsNotice(n)
    PROVE  /\ n.write \in Calls /\ n.deal \in Deals /\ n.stage \in Stages
           /\ \A b : /\ IsNotice([n EXCEPT !.read = b])
                     /\ [n EXCEPT !.read = b].write = n.write
                     /\ [n EXCEPT !.read = b].deal = n.deal
                     /\ [n EXCEPT !.read = b].stage = n.stage
                     /\ [n EXCEPT !.read = b].text = n.text
  <1>1. PICK c \in Calls, d \in Deals, s \in Stages : \E u, t, x :
                n = [write |-> c, client |-> u, deal |-> d, stage |-> s, text |-> t, read |-> x]
    BY DEF IsNotice
  <1>2. PICK u, t, x :
                n = [write |-> c, client |-> u, deal |-> d, stage |-> s, text |-> t, read |-> x]
    BY <1>1
  <1>3. ASSUME NEW b
        PROVE  [n EXCEPT !.read = b] =
                  [write |-> c, client |-> u, deal |-> d, stage |-> s, text |-> t, read |-> b]
    BY <1>2
  <1>4. ASSUME NEW b PROVE IsNotice([n EXCEPT !.read = b])
    <2>1. PICK m : m = [n EXCEPT !.read = b]  OBVIOUS
    <2>2. m = [write |-> c, client |-> u, deal |-> d, stage |-> s, text |-> t, read |-> b]
      BY <1>3, <2>1
    <2>3. IsNotice(m)  BY <2>2 DEF IsNotice
    <2>4. QED BY <2>1, <2>3
  <1>5. QED BY <1>2, <1>3, <1>4

(* Notices are told apart, and each reads like a turn of its own.          *)
LEMMA TurnsMeanTurns == TurnsInv => ToldOncePerTurn
  <1> SUFFICES ASSUME TurnsInv, NEW s \in Stages, NEW d \in Deals, NEW text
               PROVE  Received(s, d, text) <= Turns(s, text)
    BY DEF ToldOncePerTurn
  <1>1. PICK f : MadeClaims(f)  BY DEF TurnsInv
  <1> DEFINE S == {n \in notices : n.stage = s /\ n.deal = d /\ n.text = text}
             T == {i \in DOMAIN claims[s] :
                     /\ Text(claims[s][i]) = text
                     /\ i > 1 => Fingerprint(claims[s][i]) # Fingerprint(claims[s][i - 1])}
             g == [n \in S |-> f[n.write]]
  <1>2. claims[s] \in Seq(Reports) /\ DOMAIN claims[s] = 1..Len(claims[s])
        /\ Len(claims[s]) \in Nat
    BY DEF TurnsInv, ClaimsOK
  <1>3. IsFiniteSet(T)
    <2>1. IsFiniteSet(1..Len(claims[s]))  BY <1>2, FS_Interval
    <2>2. T \subseteq 1..Len(claims[s])  BY <1>2
    <2>3. QED BY <2>1, <2>2, FS_Subset
  <1>4. ASSUME NEW n \in S PROVE g[n] \in T
    <2>1. /\ n \in notices /\ n.stage = s /\ n.text = text /\ n.write \in Calls
      BY NoticeFields DEF TurnsInv, NoticesOK
    <2>2. /\ f[n.write] # 0 /\ call[n.write].stage = s
          /\ Text(claims[s][f[n.write]]) = text
          /\ f[n.write] \in DOMAIN claims[s]
      BY <1>1, <2>1 DEF MadeClaims
    <2>3. f[n.write] > 1 =>
             Fingerprint(claims[s][f[n.write]]) # Fingerprint(claims[s][f[n.write] - 1])
      BY <1>2, <2>2 DEF TurnsInv, ClaimsOK
    <2>4. QED BY <2>2, <2>3
  <1>5. ASSUME NEW n \in S, NEW m \in S, g[n] = g[m] PROVE n = m
    <2>1. /\ n \in notices /\ m \in notices /\ n.deal = m.deal
          /\ n.write \in Calls /\ m.write \in Calls /\ n.stage = s /\ m.stage = s
      BY NoticeFields DEF TurnsInv, NoticesOK
    <2>2. n.write = m.write  BY <1>1, <1>5, <2>1 DEF MadeClaims
    <2>3. QED BY <2>1, <2>2 DEF TurnsInv, NoticesOK
  <1>6. g \in Injection(S, T)  BY <1>4, <1>5 DEF Injection, IsInjective
  <1>7. Cardinality(S) <= Cardinality(T)
    <2> HIDE DEF S, T, g
    <2>1. QED BY <1>3, <1>6, FS_Injection
  <1>8. QED BY <1>7 DEF Received, Turns

-----------------------------------------------------------------------------
(* How the turns survive each step.                                        *)

(* Nobody claims, and no notice is stored or marked: calls stay where they *)
(* are, or the write c goes on from what it claimed.                       *)
LEMMA ClaimsStand ==
    ASSUME TurnsInv, UNCHANGED <<claimed, claims, notices>>,
           \A c \in Calls :
              /\ call'[c].stage = call[c].stage \/ call[c].at = "idle"
              /\ \/ /\ call'[c].at = call[c].at /\ call'[c].report = call[c].report
                    /\ call'[c].left = call[c].left
                 \/ call[c].at = "idle" /\ call'[c].at = "claim"
                 \/ call'[c].at = "done" /\ call'[c].left = {}
                 \/ /\ call[c].at \in {"deals", "tell"} /\ call'[c].at = "tell"
                    /\ call'[c].report = call[c].report
                    /\ call[c].at = "tell" => call'[c].left \subseteq call[c].left
    PROVE  TurnsInv'
  <1>1. ClaimsOK'  BY DEF TurnsInv, ClaimsOK
  <1>2. \A n \in notices : n.write \in Calls  BY NoticeFields DEF TurnsInv, NoticesOK
  <1>3. NoticesOK'
    <2>1. ASSUME NEW n \in notices
          PROVE  call'[n.write].at \in {"tell", "done"} /\ n.deal \notin call'[n.write].left
      <3>1. /\ call[n.write].at \in {"tell", "done"} /\ n.deal \notin call[n.write].left
            /\ n.write \in Calls
        BY <1>2 DEF TurnsInv, NoticesOK
      <3>2. QED BY <3>1
    <2>2. \A n \in notices : IsNotice(n)'  BY DEF TurnsInv, NoticesOK, IsNotice
    <2>3. QED BY <2>1, <2>2 DEF TurnsInv, NoticesOK
  <1>4. PICK f : MadeClaims(f)  BY DEF TurnsInv
  <1>5. MadeClaims(f)'
    <2>1. ASSUME NEW c \in Calls
          PROVE  /\ call'[c].at \in {"idle", "claim"} => f[c] = 0
                 /\ f[c] # 0 => call'[c].stage = call[c].stage
                 /\ call'[c].at \in {"deals", "tell"} =>
                       call[c].at \in {"deals", "tell"} /\ call'[c].report = call[c].report
      <3>1. call[c].at \in {"idle", "claim"} => f[c] = 0  BY <1>4 DEF MadeClaims
      <3>2. QED BY <3>1
    <2>2. ASSUME NEW c \in Calls
          PROVE  /\ f[c] # 0 => call'[c].stage \in Stages /\ f[c] \in DOMAIN claims[call'[c].stage]
                 /\ call'[c].at \in {"deals", "tell"} =>
                       f[c] # 0 /\ Text(claims[call'[c].stage][f[c]]) = Text(call'[c].report)
      <3>1. /\ f[c] # 0 => call[c].stage \in Stages /\ f[c] \in DOMAIN claims[call[c].stage]
            /\ call[c].at \in {"deals", "tell"} =>
                  f[c] # 0 /\ Text(claims[call[c].stage][f[c]]) = Text(call[c].report)
        BY <1>4 DEF MadeClaims
      <3>2. QED BY <2>1, <3>1
    <2>3. ASSUME NEW c \in Calls, NEW d \in Calls,
                 f[c] # 0, f[c] = f[d], call'[c].stage = call'[d].stage
          PROVE  c = d
      <3>1. call[c].stage = call[d].stage  BY <2>1, <2>3
      <3>2. QED BY <1>4, <2>3, <3>1 DEF MadeClaims
    <2>4. ASSUME NEW n \in notices
          PROVE  /\ f[n.write] # 0 /\ call'[n.write].stage = n.stage
                 /\ Text(claims[n.stage][f[n.write]]) = n.text
      <3>1. /\ f[n.write] # 0 /\ call[n.write].stage = n.stage
            /\ Text(claims[n.stage][f[n.write]]) = n.text
        BY <1>4 DEF MadeClaims
      <3>2. QED BY <1>2, <2>1, <3>1
    <2>5. QED BY <1>4, <2>1, <2>2, <2>3, <2>4 DEF MadeClaims
  <1>6. QED BY <1>1, <1>3, <1>5 DEF TurnsInv

(* Who claims makes a turn that nobody made before.                        *)
LEMMA ClaimTurns ==
    ASSUME NoticesInv, TurnsInv, NEW c \in Calls, NEW k \in CallRec, NEW r, NEW s,
           s = call[c].stage, r = call[c].report,
           call[c].at = "claim", Changes(claimed[s], Fingerprint(r)),
           claimed' = [claimed EXCEPT ![s] = Fingerprint(r)],
           claims' = [claims EXCEPT ![s] = Append(@, r)],
           call' = [call EXCEPT ![c] = k], k.stage = s,
           \/ k.at = "deals" /\ k.report = r
           \/ k.at = "done" /\ k.left = {},
           UNCHANGED notices
    PROVE  TurnsInv'
  <1>1. s \in Stages /\ r \in Reports
    BY CallTyped DEF Knows
  <1>2. /\ claims \in [Stages -> Seq(Reports)] /\ claims[s] \in Seq(Reports)
        /\ DOMAIN claimed = Stages
    BY <1>1 DEF TurnsInv, ClaimsOK, NoticesInv
  <1>3. PICK n : n = Len(claims[s])  OBVIOUS
  <1>4. PICK q : q = Append(claims[s], r)  OBVIOUS
  <1>5. /\ n \in Nat /\ q \in Seq(Reports) /\ Len(q) = n + 1 /\ DOMAIN q = 1..(n + 1)
        /\ DOMAIN claims[s] = 1..n
        /\ q[n + 1] = r /\ \A i \in 1..n : q[i] = claims[s][i]
    BY <1>1, <1>2, <1>3, <1>4
  <1>6. /\ claims' \in [Stages -> Seq(Reports)]
        /\ \A t \in Stages : claims'[t] = IF t = s THEN q ELSE claims[t]
        /\ \A t \in Stages : claimed'[t] = IF t = s THEN Fingerprint(r) ELSE claimed[t]
    BY <1>1, <1>2, <1>4, <1>5
  <1>7. \A d \in Calls : call'[d] = IF d = c THEN k ELSE call[d]
    BY DEF NoticesInv
  <1>8. ClaimsOK'
    <2>1. ASSUME NEW i \in 2..(n + 1)
          PROVE  Fingerprint(q[i]) # Fingerprint(q[i - 1])
      <3>1. CASE i = n + 1
        <4>1. q[i] = r /\ n \in 1..n /\ q[i - 1] = claims[s][n]  BY <1>5, <3>1
        <4>2. claimed[s] = Fingerprint(claims[s][n])
          <5>1. claims[s] # <<>>  BY <1>5, <4>1
          <5>2. QED BY <1>1, <1>3, <5>1 DEF TurnsInv, ClaimsOK
        <4>3. QED BY <4>1, <4>2 DEF Changes
      <3>2. CASE i # n + 1
        <4>1. i \in 2..n /\ i \in 1..n /\ i - 1 \in 1..n  BY <1>5, <3>2
        <4>2. q[i] = claims[s][i] /\ q[i - 1] = claims[s][i - 1]  BY <1>5, <4>1
        <4>3. Fingerprint(claims[s][i]) # Fingerprint(claims[s][i - 1])
          BY <1>1, <1>3, <4>1 DEF TurnsInv, ClaimsOK
        <4>4. QED BY <4>2, <4>3
      <3>3. QED BY <3>1, <3>2
    <2>2. ASSUME NEW t \in Stages
          PROVE  /\ claims'[t] # <<>> => claimed'[t] = Fingerprint(claims'[t][Len(claims'[t])])
                 /\ \A i \in 2..Len(claims'[t]) :
                       Fingerprint(claims'[t][i]) # Fingerprint(claims'[t][i - 1])
      <3>1. CASE t = s  BY <1>5, <1>6, <2>1, <3>1
      <3>2. CASE t # s  BY <1>6, <3>2 DEF TurnsInv, ClaimsOK
      <3>3. QED BY <3>1, <3>2
    <2>3. QED BY <1>6, <2>2 DEF ClaimsOK, Fingerprint, Days
  <1>9. NoticesOK'
    <2>1. ASSUME NEW m \in notices
          PROVE  call'[m.write].at \in {"tell", "done"} /\ m.deal \notin call'[m.write].left
      <3>1. /\ call[m.write].at \in {"tell", "done"} /\ m.deal \notin call[m.write].left
            /\ m.write \in Calls
        BY NoticeFields DEF TurnsInv, NoticesOK
      <3>2. QED BY <1>7, <3>1
    <2>2. \A m \in notices : IsNotice(m)'  BY DEF TurnsInv, NoticesOK, IsNotice
    <2>3. QED BY <2>1, <2>2 DEF TurnsInv, NoticesOK
  <1>10. PICK f : MadeClaims(f)  BY DEF TurnsInv
  <1>11. PICK g : g = [f EXCEPT ![c] = n + 1]  OBVIOUS
  <1>12. f \in [Calls -> Nat] /\ f[c] = 0  BY <1>10 DEF MadeClaims
  <1>13. g \in [Calls -> Nat] /\ \A d \in Calls : g[d] = IF d = c THEN n + 1 ELSE f[d]
    BY <1>5, <1>11, <1>12
  (* What was claimed is claimed still.                                    *)
  <1>14. ASSUME NEW d \in Calls, d # c, f[d] # 0
         PROVE  /\ call[d].stage \in Stages
                /\ f[d] \in DOMAIN claims'[call[d].stage]
                /\ claims'[call[d].stage][f[d]] = claims[call[d].stage][f[d]]
                /\ call[d].stage = s => f[d] \in 1..n
    <2>1. call[d].stage \in Stages /\ f[d] \in DOMAIN claims[call[d].stage]
      BY <1>10, <1>14 DEF MadeClaims
    <2>2. QED BY <1>5, <1>6, <2>1
  <1>15. ASSUME NEW d \in Calls
         PROVE  /\ call'[d].at \in {"idle", "claim"} => g[d] = 0
                /\ g[d] # 0 => call'[d].stage \in Stages /\ g[d] \in DOMAIN claims'[call'[d].stage]
                /\ call'[d].at \in {"deals", "tell"} =>
                      g[d] # 0 /\ Text(claims'[call'[d].stage][g[d]]) = Text(call'[d].report)
    <2>1. CASE d = c
      <3>1. call'[d] = k /\ g[d] = n + 1 /\ claims'[s] = q  BY <1>1, <1>6, <1>7, <1>13, <2>1
      <3>2. g[d] # 0 /\ g[d] \in DOMAIN claims'[s] /\ claims'[s][g[d]] = r  BY <1>5, <3>1
      <3>3. QED BY <1>1, <3>1, <3>2
    <2>2. CASE d # c
      <3>1. call'[d] = call[d] /\ g[d] = f[d]  BY <1>7, <1>13, <2>2
      <3>2. /\ call[d].at \in {"idle", "claim"} => f[d] = 0
            /\ call[d].at \in {"deals", "tell"} =>
                  f[d] # 0 /\ Text(claims[call[d].stage][f[d]]) = Text(call[d].report)
        BY <1>10 DEF MadeClaims
      <3>3. QED BY <1>14, <2>2, <3>1, <3>2
    <2>3. QED BY <2>1, <2>2
  <1>16. ASSUME NEW d \in Calls, NEW e \in Calls,
                g[d] # 0, g[d] = g[e], call'[d].stage = call'[e].stage
         PROVE  d = e
    <2>1. ASSUME NEW x \in Calls, x # c, g[x] # 0, call'[x].stage = s PROVE g[x] # n + 1
      BY <1>5, <1>7, <1>13, <1>14, <2>1
    <2>2. CASE d # c /\ e # c
      BY <1>7, <1>10, <1>13, <1>16, <2>2 DEF MadeClaims
    <2>3. CASE d = c /\ e # c  BY <1>7, <1>13, <1>16, <2>1, <2>3
    <2>4. CASE d # c /\ e = c  BY <1>7, <1>13, <1>16, <2>1, <2>4
    <2>5. QED BY <2>2, <2>3, <2>4
  <1>17. ASSUME NEW m \in notices
         PROVE  /\ g[m.write] # 0 /\ call'[m.write].stage = m.stage
                /\ Text(claims'[m.stage][g[m.write]]) = m.text
    <2>1. m.write \in Calls /\ m.write # c
      BY NoticeFields DEF TurnsInv, NoticesOK
    <2>2. /\ f[m.write] # 0 /\ call[m.write].stage = m.stage
          /\ Text(claims[m.stage][f[m.write]]) = m.text
      BY <1>10 DEF MadeClaims
    <2>3. QED BY <1>7, <1>13, <1>14, <2>1, <2>2
  <1>18. MadeClaims(g)'  BY <1>13, <1>15, <1>16, <1>17 DEF MadeClaims
  <1>19. QED BY <1>8, <1>9, <1>18 DEF TurnsInv

(* What a write tells reads like its claim, and it tells a deal once.      *)
LEMMA NoticeTurns ==
    ASSUME NoticesInv, TurnsInv, NEW c \in Calls, NEW d \in Deals, NEW k \in CallRec,
           call[c].at = "tell", d \in call[c].left, notices' = notices \cup {Notice(c, d)},
           call' = [call EXCEPT ![c] = k], k.stage = call[c].stage,
           k.left \subseteq call[c].left \ {d},
           \/ k.at = "tell" /\ k.report = call[c].report
           \/ k.at = "done",
           UNCHANGED <<claimed, claims>>
    PROVE  TurnsInv'
  <1>1. PICK m : m = Notice(c, d)  OBVIOUS
  <1>2. /\ m.write = c /\ m.deal = d /\ m.stage = call[c].stage
        /\ m.text = Text(call[c].report) /\ notices' = notices \cup {m}
    BY <1>1 DEF Notice
  <1>3. call[c].stage \in Stages  BY CallTyped DEF Knows
  <1>4. IsNotice(m)
    <2>1. PICK u, t : u = deals[d].client /\ t = Text(call[c].report)  OBVIOUS
    <2>2. m = [write |-> c, client |-> u, deal |-> d, stage |-> call[c].stage,
               text |-> t, read |-> FALSE]
      BY <1>1, <2>1 DEF Notice
    <2>3. QED BY <1>3, <2>2 DEF IsNotice
  <1>5. \A e \in Calls : call'[e] = IF e = c THEN k ELSE call[e]
    BY DEF NoticesInv
  <1>6. ClaimsOK'  BY DEF TurnsInv, ClaimsOK
  <1>7. \A n \in notices : /\ n.write \in Calls /\ IsNotice(n) /\ n.deal \notin call[n.write].left
                           /\ call[n.write].at \in {"tell", "done"}
    BY NoticeFields DEF TurnsInv, NoticesOK
  <1>8. NoticesOK'
    <2>1. ASSUME NEW n \in notices'
          PROVE  call'[n.write].at \in {"tell", "done"} /\ n.deal \notin call'[n.write].left
      BY <1>2, <1>5, <1>7, <2>1
    <2>2. ASSUME NEW n \in notices', NEW l \in notices', n.write = l.write, n.deal = l.deal
          PROVE  n = l
      <3>1. \A x \in notices : ~(x.write = c /\ x.deal = d)  BY <1>7
      <3>2. CASE n \in notices /\ l \in notices
        BY <2>2, <3>2 DEF TurnsInv, NoticesOK
      <3>3. QED BY <1>2, <2>2, <3>1, <3>2
    <2>3. \A n \in notices' : IsNotice(n)'
      BY <1>2, <1>4, <1>7 DEF IsNotice
    <2>4. QED BY <2>1, <2>2, <2>3 DEF NoticesOK
  <1>9. PICK f : MadeClaims(f)  BY DEF TurnsInv
  <1>10. MadeClaims(f)'
    <2>1. ASSUME NEW e \in Calls
          PROVE  /\ call'[e].stage = call[e].stage
                 /\ call'[e].at \in {"idle", "claim"} => f[e] = 0
                 /\ f[e] # 0 => call'[e].stage \in Stages /\ f[e] \in DOMAIN claims[call'[e].stage]
                 /\ call'[e].at \in {"deals", "tell"} =>
                       f[e] # 0 /\ Text(claims[call'[e].stage][f[e]]) = Text(call'[e].report)
      <3>1. /\ call[e].at \in {"idle", "claim"} => f[e] = 0
            /\ f[e] # 0 => call[e].stage \in Stages /\ f[e] \in DOMAIN claims[call[e].stage]
            /\ call[e].at \in {"deals", "tell"} =>
                  f[e] # 0 /\ Text(claims[call[e].stage][f[e]]) = Text(call[e].report)
        BY <1>9 DEF MadeClaims
      <3>2. CASE e = c
        <4>1. call'[e] = k  BY <1>5, <3>2
        <4>2. QED BY <3>1, <3>2, <4>1
      <3>3. CASE e # c
        <4>1. call'[e] = call[e]  BY <1>5, <3>3
        <4>2. QED BY <3>1, <4>1
      <3>4. QED BY <3>2, <3>3
    <2>2. ASSUME NEW e \in Calls, NEW g \in Calls,
                 f[e] # 0, f[e] = f[g], call'[e].stage = call'[g].stage
          PROVE  e = g
      BY <1>9, <2>1, <2>2 DEF MadeClaims
    <2>3. ASSUME NEW n \in notices'
          PROVE  /\ f[n.write] # 0 /\ call'[n.write].stage = n.stage
                 /\ Text(claims[n.stage][f[n.write]]) = n.text
      <3>1. CASE n \in notices
        <4>1. /\ f[n.write] # 0 /\ call[n.write].stage = n.stage
              /\ Text(claims[n.stage][f[n.write]]) = n.text
          BY <1>9, <3>1 DEF MadeClaims
        <4>2. QED BY <1>7, <2>1, <3>1, <4>1
      <3>2. CASE n = m
        <4>1. f[c] # 0 /\ Text(claims[call[c].stage][f[c]]) = Text(call[c].report)
          BY <1>9 DEF MadeClaims
        <4>2. QED BY <1>2, <2>1, <3>2, <4>1
      <3>3. QED BY <1>2, <3>1, <3>2
    <2>4. QED BY <1>9, <2>1, <2>2, <2>3 DEF MadeClaims
  <1>11. QED BY <1>6, <1>8, <1>10 DEF TurnsInv

(* Reading marks notices and changes nothing else of them.                 *)
LEMMA ReadingTurns ==
    ASSUME TurnsInv, UNCHANGED <<claimed, claims, call>>,
           \A m \in notices' : \E n \in notices :
              /\ IsNotice(m) /\ m.write = n.write /\ m.deal = n.deal
              /\ m.stage = n.stage /\ m.text = n.text,
           \A m, l \in notices' : m.write = l.write /\ m.deal = l.deal => m = l
    PROVE  TurnsInv'
  <1>1. ClaimsOK'  BY DEF TurnsInv, ClaimsOK
  <1>2. NoticesOK'
    <2>1. ASSUME NEW m \in notices'
          PROVE  /\ IsNotice(m)' /\ call'[m.write].at \in {"tell", "done"}
                 /\ m.deal \notin call'[m.write].left
      <3>1. PICK n \in notices : IsNotice(m) /\ m.write = n.write /\ m.deal = n.deal
        OBVIOUS
      <3>2. call[n.write].at \in {"tell", "done"} /\ n.deal \notin call[n.write].left
        BY DEF TurnsInv, NoticesOK
      <3>3. QED BY <3>1, <3>2 DEF IsNotice
    <2>2. QED BY <2>1 DEF NoticesOK
  <1>3. PICK f : MadeClaims(f)  BY DEF TurnsInv
  <1>4. MadeClaims(f)'
    <2>1. ASSUME NEW m \in notices'
          PROVE  /\ f[m.write] # 0 /\ call'[m.write].stage = m.stage
                 /\ Text(claims'[m.stage][f[m.write]]) = m.text
      <3>1. PICK n \in notices : m.write = n.write /\ m.stage = n.stage /\ m.text = n.text
        OBVIOUS
      <3>2. QED BY <1>3, <3>1 DEF MadeClaims
    <2>2. QED BY <1>3, <2>1 DEF MadeClaims
  <1>5. QED BY <1>1, <1>2, <1>4 DEF TurnsInv

LEMMA ReadingStepTurns ==
    ASSUME TurnsInv, NEW u, ReadingStep(u)
    PROVE  TurnsInv'
  <1>1. UNCHANGED <<claimed, claims, call>>
    BY DEF ReadingStep, MarkAsRead, MarkAllAsRead
  <1>2. \A n \in notices : IsNotice(n)  BY DEF TurnsInv, NoticesOK
  <1>3. \A n, l \in notices : n.write = l.write /\ n.deal = l.deal => n = l
    BY DEF TurnsInv, NoticesOK
  <1>4. CASE MarkAllAsRead(u)
    <2>1. notices' = {[n EXCEPT !.read = @ \/ n.client = u] : n \in notices}
      BY <1>4 DEF MarkAllAsRead
    <2>2. ASSUME NEW m \in notices'
          PROVE  \E n \in notices :
                    /\ m = [n EXCEPT !.read = n.read \/ n.client = u]
                    /\ IsNotice(m) /\ m.write = n.write /\ m.deal = n.deal
                    /\ m.stage = n.stage /\ m.text = n.text
      <3>1. PICK n \in notices : m = [n EXCEPT !.read = @ \/ n.client = u]  BY <2>1
      <3>2. PICK b : b = (n.read \/ n.client = u)  OBVIOUS
      <3>3. m = [n EXCEPT !.read = b]  BY <3>1, <3>2
      <3>4. /\ IsNotice(m) /\ m.write = n.write /\ m.deal = n.deal
            /\ m.stage = n.stage /\ m.text = n.text
        BY <1>2, <3>3, NoticeFields
      <3>5. QED BY <3>2, <3>3, <3>4
    <2>3. ASSUME NEW m \in notices', NEW l \in notices', m.write = l.write, m.deal = l.deal
          PROVE  m = l
      BY <1>3, <2>2, <2>3
    <2>4. QED BY <1>1, <2>2, <2>3, ReadingTurns
  <1>5. ASSUME NEW n \in notices, MarkAsRead(u, n) PROVE TurnsInv'
    <2>1. PICK l : l = [n EXCEPT !.read = TRUE]  OBVIOUS
    <2>2. /\ IsNotice(l) /\ l.write = n.write /\ l.deal = n.deal
          /\ l.stage = n.stage /\ l.text = n.text
      BY <1>2, <2>1, NoticeFields
    <2>3. notices' = (notices \ {n}) \cup {l}  BY <1>5, <2>1 DEF MarkAsRead
    <2>4. ASSUME NEW m \in notices'
          PROVE  \E x \in notices : /\ IsNotice(m) /\ m.write = x.write /\ m.deal = x.deal
                                    /\ m.stage = x.stage /\ m.text = x.text
      BY <1>2, <2>2, <2>3
    <2>5. ASSUME NEW m \in notices', NEW x \in notices', m.write = x.write, m.deal = x.deal
          PROVE  m = x
      BY <1>3, <2>2, <2>3, <2>5
    <2>6. QED BY <1>1, <2>4, <2>5, ReadingTurns
  <1>6. QED BY <1>4, <1>5 DEF ReadingStep

LEMMA StageStepTurns ==
    ASSUME NoticesInv, TurnsInv, NEW c \in Calls, StageStep(c)
    PROVE  TurnsInv'
  <1>0. /\ call[c] \in CallRec
        /\ \A k : call' = [call EXCEPT ![c] = k] =>
              \A e \in Calls : call'[e] = IF e = c THEN k ELSE call[e]
    BY CallTyped DEF NoticesInv
  <1>1. ASSUME NEW s \in Stages, NEW b \in Buildings, NEW r \in Reports,
               CreateProgress(c, s, b, r) \/ UpdateProgress(c, s, b, r)
        PROVE  TurnsInv'
    <2>1. PICK k : k = [Idle EXCEPT !.at = "claim", !.stage = s, !.building = b, !.report = r]
      OBVIOUS
    <2>2. k.at = "claim"  BY <2>1 DEF Idle
    <2>3. /\ call[c].at = "idle" /\ call' = [call EXCEPT ![c] = k]
          /\ UNCHANGED <<claimed, claims, notices>>
      BY <1>1, <2>1 DEF CreateProgress, UpdateProgress, Write
    <2>4. QED BY <1>0, <2>2, <2>3, ClaimsStand
  <1>2. ASSUME ClaimConstructionState(c) PROVE TurnsInv'
    <2>1. PICK s, r : s = call[c].stage /\ r = call[c].report  OBVIOUS
    <2>2. /\ Finished(call[c]) \in CallRec /\ Finished(call[c]).at = "done"
          /\ Finished(call[c]).stage = s /\ Finished(call[c]).left = {}
      BY <1>0, <2>1, FinishedTyped DEF Finished, Idle
    <2>3. CASE call' = [call EXCEPT ![c] = Finished(@)] /\ UNCHANGED <<claimed, claims>>
      <3>1. call' = [call EXCEPT ![c] = Finished(call[c])]  BY <2>3
      <3>2. call[c].at = "claim" /\ UNCHANGED notices  BY <1>2 DEF ClaimConstructionState
      <3>3. QED BY <1>0, <2>1, <2>2, <2>3, <3>1, <3>2, ClaimsStand
    <2>4. CASE /\ Changes(claimed[s], Fingerprint(r))
               /\ claimed' = [claimed EXCEPT ![s] = Fingerprint(r)]
               /\ claims' = [claims EXCEPT ![s] = Append(@, r)]
               /\ call' = [call EXCEPT ![c] =
                     IF Alarming(r)
                     THEN [@ EXCEPT !.at = "deals",
                                    !.steady = Active(deals, apartment, call[c].building)]
                     ELSE Finished(@)]
      <3>1. call[c].at = "claim" /\ UNCHANGED notices  BY <1>2 DEF ClaimConstructionState
      <3>2. PICK A : A = Active(deals, apartment, call[c].building)  OBVIOUS
      <3>3. PICK k : k = [call[c] EXCEPT !.at = "deals", !.steady = A]  OBVIOUS
      <3>4. k \in CallRec /\ k.at = "deals" /\ k.stage = s /\ k.report = r
        <4>1. A \subseteq Deals  BY <3>2 DEF Active
        <4>2. QED BY <1>0, <2>1, <3>3, <4>1 DEF CallRec
      <3>5. \/ call' = [call EXCEPT ![c] = k]
            \/ call' = [call EXCEPT ![c] = Finished(call[c])]
        BY <2>4, <3>2, <3>3
      <3>6. QED BY <2>1, <2>2, <2>4, <3>1, <3>4, <3>5, ClaimTurns
    <2>5. QED BY <1>2, <2>1, <2>3, <2>4 DEF ClaimConstructionState
  <1>3. ASSUME NEW k \in CallRec, k.stage = call[c].stage, k.report = call[c].report
        PROVE  /\ Telling(k) \in CallRec /\ Telling(k).stage = call[c].stage
               /\ Telling(k).left = k.left
               /\ \/ Telling(k).at = "tell" /\ Telling(k).report = call[c].report
                  \/ Telling(k).at = "done" /\ Telling(k).left = {}
    <2>1. /\ Finished(k) \in CallRec /\ Finished(k).at = "done"
          /\ Finished(k).stage = k.stage /\ Finished(k).left = {}
      BY FinishedTyped DEF Finished, Idle
    <2>2. CASE k.left = {}
      <3>1. Telling(k) = Finished(k)  BY <2>2 DEF Telling
      <3>2. QED BY <1>3, <2>1, <2>2, <3>1
    <2>3. CASE k.left # {}
      <3>1. Telling(k) = [k EXCEPT !.at = "tell"]  BY <2>3 DEF Telling
      <3>2. /\ Telling(k) \in CallRec /\ Telling(k).at = "tell" /\ Telling(k).stage = k.stage
            /\ Telling(k).report = k.report /\ Telling(k).left = k.left
        BY <3>1 DEF CallRec
      <3>3. QED BY <1>3, <3>2
    <2>4. QED BY <2>2, <2>3
  <1>4. ASSUME ReadDeals(c) PROVE TurnsInv'
    <2>1. PICK ds, k : /\ ds = Listed(deals, apartment, call[c].building)
                       /\ k = [call[c] EXCEPT !.left = ds]
      OBVIOUS
    <2>2. ds \in SUBSET Deals  BY <2>1 DEF Listed
    <2>3. k \in CallRec /\ k.stage = call[c].stage /\ k.report = call[c].report
      BY <1>0, <2>1, <2>2 DEF CallRec
    <2>4. /\ call[c].at = "deals" /\ call' = [call EXCEPT ![c] = Telling(k)]
          /\ UNCHANGED <<claimed, claims, notices>>
      BY <1>4, <2>1 DEF ReadDeals
    <2>5. QED BY <1>0, <1>3, <2>3, <2>4, ClaimsStand
  <1>5. ASSUME NEW d \in Deals, Tell(c, d) PROVE TurnsInv'
    <2>1. /\ call[c].at = "tell" /\ d \in call[c].left /\ UNCHANGED <<claimed, claims>>
      BY <1>5 DEF Tell
    <2>2. CASE /\ notices' = notices \cup {Notice(c, d)}
               /\ call' = [call EXCEPT ![c] = Telling([[call[c] EXCEPT !.left = @ \ {d}]
                                                        EXCEPT !.told = @ \cup {d}])]
      <3>1. PICK k : k = [[call[c] EXCEPT !.left = @ \ {d}] EXCEPT !.told = @ \cup {d}]
        OBVIOUS
      <3>2. /\ k \in CallRec /\ k.stage = call[c].stage /\ k.report = call[c].report
            /\ k.left = call[c].left \ {d}
        BY <1>0, <3>1 DEF CallRec
      <3>3. call' = [call EXCEPT ![c] = Telling(k)]  BY <2>2, <3>1
      <3>4. QED BY <1>3, <2>1, <2>2, <3>2, <3>3, NoticeTurns
    <2>3. CASE /\ UNCHANGED notices
               /\ call' = [call EXCEPT ![c] = Telling([[call[c] EXCEPT !.left = @ \ {d}]
                                                        EXCEPT !.cut = "tell"])]
      <3>1. PICK k : k = [[call[c] EXCEPT !.left = @ \ {d}] EXCEPT !.cut = "tell"]
        OBVIOUS
      <3>2. /\ k \in CallRec /\ k.stage = call[c].stage /\ k.report = call[c].report
            /\ k.left = call[c].left \ {d}
        BY <1>0, <3>1 DEF CallRec
      <3>3. call' = [call EXCEPT ![c] = Telling(k)]  BY <2>3, <3>1
      <3>4. QED BY <1>0, <1>3, <2>1, <2>3, <3>2, <3>3, ClaimsStand
    <2>4. QED BY <1>5, <2>2, <2>3 DEF Tell
  <1>6. ASSUME CutShort(c) PROVE TurnsInv'
    <2>1. PICK k : k = [call[c] EXCEPT !.cut = call[c].at]  OBVIOUS
    <2>2. k \in CallRec /\ k.stage = call[c].stage
      BY <1>0, <1>6, <2>1 DEF CallRec, CutShort, InFlight
    <2>3. /\ Finished(k).at = "done" /\ Finished(k).stage = call[c].stage
          /\ Finished(k).left = {}
      BY <2>2, FinishedTyped DEF Finished, Idle
    <2>4. call' = [call EXCEPT ![c] = Finished(k)] /\ UNCHANGED <<claimed, claims, notices>>
      BY <1>6, <2>1 DEF CutShort
    <2>5. QED BY <1>0, <2>3, <2>4, ClaimsStand
  <1>7. QED BY <1>1, <1>2, <1>4, <1>5, <1>6 DEF StageStep

LEMMA CatalogueStepTurns ==
    ASSUME NoticesInv, TurnsInv, CatalogueStep
    PROVE  TurnsInv'
  <1>1. UNCHANGED <<claimed, claims, notices>>
    BY DEF CatalogueStep, CreateComplex, CreateBuilding, UpdateBuilding, CreateApartment,
           UpdateApartment, CreateDeal, UpdateDealStatus, notified
  <1>2. CASE UNCHANGED call  BY <1>1, <1>2, ClaimsStand
  <1>3. ASSUME NEW rows, NEW aps, Watch(rows, aps) PROVE TurnsInv'
    <2>1. ASSUME NEW c \in Calls
          PROVE  /\ call'[c].stage = call[c].stage /\ call'[c].at = call[c].at
                 /\ call'[c].report = call[c].report /\ call'[c].left = call[c].left
      <3>1. call[c] \in CallRec  BY CallTyped
      <3>2. PICK A : A = Active(rows, aps, call[c].building)  OBVIOUS
      <3>3. call'[c] = call[c] \/ call'[c] = [call[c] EXCEPT !.steady = @ \cap A]
        BY <1>3, <3>2 DEF Watch
      <3>4. QED BY <3>1, <3>3 DEF CallRec
    <2>2. QED BY <1>1, <2>1, ClaimsStand
  <1>4. QED BY <1>2, <1>3 DEF CatalogueStep, CreateComplex, CreateBuilding, UpdateBuilding,
               CreateApartment, UpdateApartment, CreateDeal, UpdateDealStatus

LEMMA InitTurns == Init => TurnsInv
  <1> SUFFICES ASSUME Init PROVE TurnsInv
    OBVIOUS
  <1>1. \A c \in Calls : call[c].at = "idle" /\ call[c] = Idle  BY DEF Init, Idle
  <1>2. \A s \in Stages : claims[s] = <<>> /\ claims[s] \in Seq(Reports) /\ Len(claims[s]) = 0
    BY DEF Init
  <1>3. ClaimsOK  BY <1>2 DEF Init, ClaimsOK
  <1>4. NoticesOK  BY DEF Init, NoticesOK
  <1>5. MadeClaims([c \in Calls |-> 0])
    BY <1>1 DEF Init, MadeClaims
  <1>6. QED BY <1>3, <1>4, <1>5 DEF TurnsInv

(* However many writes report the same state of a stage, in parallel or    *)
(* again and again, a deal is told of it once per turn of the claimed      *)
(* state: the upsert decides which one tells, and it tells a deal once     *)
(* (service/notification.go, repository/notification.go).                  *)
THEOREM ToldOnce == Spec => []ToldOncePerTurn
  <1>1. NoticesInv /\ TurnsInv /\ [Next]_vars => TurnsInv'
    <2> SUFFICES ASSUME NoticesInv, TurnsInv, [Next]_vars PROVE TurnsInv'
      OBVIOUS
    <2>1. CASE UNCHANGED vars
      <3>1. UNCHANGED <<claimed, claims, notices, call>>  BY <2>1 DEF vars
      <3>2. QED BY <3>1, ClaimsStand
    <2>2. QED BY <2>1, CatalogueStepTurns, StageStepTurns, ReadingStepTurns DEF Next
  <1>2. QED BY <1>1, InitTurns, NoticesInvariant, TurnsMeanTurns, PTL DEF Spec
=============================================================================
