-------------------------- MODULE AssistantProofs ---------------------------
(***************************************************************************)
(* Proofs about Assistant, for every set of users, sessions, deals and     *)
(* requests, whatever the agent and the broker do, and for the chat that   *)
(* goes on meanwhile.                                                      *)
(*                                                                         *)
(* The handler reads who may ask, and statements later it publishes,       *)
(* waits, records and answers.  What it read is still true then, because   *)
(* sessions and messages only evolve (module ChatProofs); and an answer    *)
(* reaches a session only from a request of the session's own client.      *)
(***************************************************************************)
EXTENDS Assistant, ChatProofs

(* Who may ask for r, by what the tables say now.                          *)
Admissible(r) ==
    IF r.op = "chat"
    THEN /\ session[r.session] # None
         /\ Role[r.actor] = "user" => session[r.session].user = r.actor
         /\ Role[r.actor] = "manager" =>
               \/ session[r.session].apartment = None
               \/ session[r.session].employee = r.actor
    ELSE /\ dealt[r.deal] # None
         /\ Role[r.actor] = "manager" => dealt[r.deal].employee = r.actor

ByClient(r) == r.op = "chat" /\ Role[r.actor] = "user"

(* Request a stands at k: what it asks for, how far it has come, and what  *)
(* its asker has been told.                                                *)
InFlight(a, k) ==
    /\ k.at # "idle" => k.req \in AskRequests
    /\ k.at \in {"question", "send", "wait", "record", "answer"} => Admissible(k.req)
    /\ k.at \in {"question", "answer"} => ByClient(k.req)
    /\ k.at # "done" => k.told = "lost"
    /\ k.at = "record" => k.outcome \in Outcomes /\ (Succeeded(k.outcome) => a \in asked)
    /\ k.at \in {"wait", "answer"} \/ k.told = "ok" => a \in asked

(* A request the agent has: it was published once, by someone entitled.    *)
Published(a, k) ==
    a \in asked => k.at \in {"wait", "record", "answer", "done"} /\ Admissible(k.req)

(* Row is a message of a request at k: its client's question, or the       *)
(* answer to it.                                                           *)
Belongs(row, k) ==
    /\ k.at \notin {"idle", "question"}
    /\ ByClient(k.req) /\ Admissible(k.req) /\ k.req.session = row.session
    /\ \/ row.side = "client" /\ row.author = k.req.actor
       \/ row.side = "ai" /\ k.told = "ok"

Recorded(e, k) ==
    /\ k.at \in {"answer", "done"}
    /\ e.status = "success" => e.ask \in asked /\ k.told \in {"ok", "lost"}
    /\ e.status = "failed" => k.at = "done" /\ k.told # "ok"

AssistantInv ==
    /\ ChatInv /\ TypeOK
    /\ \A a \in Asks : InFlight(a, ask[a]) /\ Published(a, ask[a])
    /\ \A m \in MessageIds : about[m] # None =>
          message[m] # None /\ Belongs(message[m], ask[about[m]])
    /\ \A e \in record : Recorded(e, ask[e.ask]) /\ \A f \in record : f.ask = e.ask => f = e
    /\ \A a \in Asks : \A m \in seen[a] :
          message[m] # None /\ message[m].side \in {"client", "manager"}

(* What a step may do to the deals.                                        *)
DealtStay == \A d \in Deals : dealt[d] # None => dealt'[d] = dealt[d]
-----------------------------------------------------------------------------
LEMMA NoneIsNoAsk ==
    /\ None \notin AskRequests /\ None \notin Asks /\ None \notin Deals
    /\ None \notin DealRow /\ None \notin Users /\ None \notin MessageRow
BY AskAssumption, DealtAssumption, ChatAssumption, ChatNoneAssumption

LEMMA AskRequestKinds ==
    ASSUME NEW r \in AskRequests
    PROVE  /\ r.op \in {"chat", "analyze", "reply"}
           /\ r.actor \in Users
           /\ r.op = "chat" => r.session \in SessionIds
           /\ r.op # "chat" => r.deal \in Deals
BY AskAssumption DEF AskRequest, Staff

LEMMA AdmissibleKept ==
    ASSUME NEW r \in AskRequests, Admissible(r), SessionsEvolve, DealtStay
    PROVE  Admissible(r)'
<1>1. CASE r.op = "chat"
  <2>1. r.session \in SessionIds /\ r.actor \in Users
    BY <1>1, AskRequestKinds
  <2>2. Evolves(r.session)
    BY <2>1 DEF SessionsEvolve
  <2> QED
    BY <1>1, <2>1, <2>2, NoneIsNoAsk DEF Admissible, Evolves
<1>2. CASE r.op # "chat"
  <2>1. r.deal \in Deals
    BY <1>2, AskRequestKinds
  <2> QED
    BY <1>2, <2>1 DEF Admissible, DealtStay
<1> QED
  BY <1>1, <1>2

LEMMA InFlightKept ==
    ASSUME NEW a \in Asks, NEW k \in Ask, InFlight(a, k), SessionsEvolve, DealtStay,
           asked \subseteq asked'
    PROVE  InFlight(a, k)'
<1>1. k.at \in {"question", "send", "wait", "record", "answer"} => Admissible(k.req)'
  BY AdmissibleKept DEF InFlight
<1> QED
  BY <1>1 DEF InFlight

LEMMA PublishedKept ==
    ASSUME NEW a \in Asks, NEW k \in Ask, InFlight(a, k), Published(a, k),
           SessionsEvolve, DealtStay, a \in asked' => a \in asked
    PROVE  Published(a, k)'
<1>1. a \in asked => k.req \in AskRequests
  BY DEF InFlight, Published
<1>2. a \in asked => Admissible(k.req)'
  BY <1>1, AdmissibleKept DEF Published
<1> QED
  BY <1>2 DEF Published

(* A row that has been marked read since is the same message.              *)
LEMMA BelongsKept ==
    ASSUME NEW row \in MessageRow, NEW new \in MessageRow, NEW k \in Ask,
           k.req \in AskRequests, Belongs(row, k), SessionsEvolve, DealtStay,
           new.session = row.session, new.author = row.author, new.side = row.side
    PROVE  Belongs(new, k)'
<1>1. Admissible(k.req)'
  BY AdmissibleKept DEF Belongs
<1> QED
  BY <1>1 DEF Belongs, ByClient
-----------------------------------------------------------------------------
(* What a step may leave to the invariant: a request that has not moved.   *)
LEMMA UnmovedAsk ==
    ASSUME AssistantInv, NEW a \in Asks, ask'[a] = ask[a], SessionsEvolve, DealtStay,
           asked \subseteq asked', a \in asked' => a \in asked
    PROVE  InFlight(a, ask[a])' /\ Published(a, ask[a])'
<1>1. PICK k \in Ask : k = ask[a] /\ k = ask'[a]
  BY DEF AssistantInv, TypeOK
<1>2. InFlight(a, k) /\ Published(a, k)
  BY <1>1 DEF AssistantInv
<1>3. InFlight(a, k)' /\ Published(a, k)'
  BY <1>2, InFlightKept, PublishedKept
<1> QED
  BY <1>1, <1>3

(* A message whose request has not moved, or moved on without leaving it.  *)
LEMMA UnmovedMessage ==
    ASSUME AssistantInv, NEW m \in MessageIds, about[m] # None, about'[m] = about[m],
           message' \in [MessageIds -> MessageRow \cup {None}],
           SessionsEvolve, MessagesStay, DealtStay,
           NEW k \in Ask, ask'[about[m]] = k, k.req = ask[about[m]].req,
           k.at \notin {"idle", "question"},
           ask[about[m]].told = "ok" => k.told = "ok"
    PROVE  message'[m] # None /\ Belongs(message[m], ask[about[m]])'
<1>1. about[m] \in Asks
  BY DEF AssistantInv, TypeOK
<1>2. PICK a \in Asks, old \in Ask : a = about[m] /\ old = ask[a]
  BY <1>1 DEF AssistantInv, TypeOK
<1>3. message[m] # None /\ Belongs(message[m], old) /\ InFlight(a, old)
  BY <1>2 DEF AssistantInv
<1>4. message[m] \in MessageRow /\ message'[m] # None
  BY <1>3 DEF AssistantInv, TypeOK, ChatTypeOK, MessagesStay
<1>5. PICK row \in MessageRow, new \in MessageRow :
         /\ row = message[m] /\ new = message'[m]
         /\ new.session = row.session /\ new.author = row.author /\ new.side = row.side
  BY <1>3, <1>4 DEF MessagesStay
<1>6. Belongs(row, old)
  BY <1>3, <1>5
<1>7. Belongs(row, k)
  BY <1>2, <1>6 DEF Belongs, ByClient
<1>8. k.req \in AskRequests
  BY <1>2, <1>3, <1>6 DEF InFlight, Belongs
<1>9. Belongs(new, k)'
  BY <1>5, <1>7, <1>8, BelongsKept
<1>10. new = message'[m] /\ k = ask'[about'[m]]
  BY <1>5
<1> QED
  BY <1>4, <1>9, <1>10

LEMMA UnmovedEntry ==
    ASSUME AssistantInv, NEW e \in record, asked \subseteq asked',
           \/ ask'[e.ask] = ask[e.ask]
           \/ /\ ask[e.ask].at = "answer"
              /\ ask'[e.ask].at = "done" /\ ask'[e.ask].told \in {"ok", "lost"}
    PROVE  Recorded(e, ask[e.ask])'
<1>1. Recorded(e, ask[e.ask])
  BY DEF AssistantInv
<1>2. CASE ask'[e.ask] = ask[e.ask]
  BY <1>1, <1>2 DEF Recorded
<1>3. CASE ask'[e.ask] # ask[e.ask]
  BY <1>1, <1>3 DEF Recorded
<1> QED
  BY <1>2, <1>3

(***************************************************************************)
(* A step of request a keeps the invariant if it leaves the request sound, *)
(* if a message that it stores belongs to it, and an entry tells the       *)
(* truth.                                                                  *)
(***************************************************************************)
LEMMA AskStepInv ==
    ASSUME AssistantInv, ChatInv', SessionsEvolve, MessagesStay, UNCHANGED <<dealt, seen>>,
           NEW a \in Asks, NEW k \in Ask, ask' = [ask EXCEPT ![a] = k],
           ask[a].at \in {"idle", "question"} \/ k.at \notin {"idle", "question"},
           ask[a].at = "idle" \/ k.req = ask[a].req,
           ask[a].at # "done", ask[a].at = "answer" => k.at = "done" /\ k.told \in {"ok", "lost"},
           asked' \in {asked, asked \cup {a}}, open' \subseteq asked',
           callback' \in [Asks -> Replies \cup {None}],
           InFlight(a, k)', Published(a, k)',
           \A m \in MessageIds :
              \/ about'[m] = about[m]
              \/ about'[m] = a /\ message'[m] # None /\ Belongs(message[m], k)',
           about' \in [MessageIds -> Asks \cup {None}],
           record \subseteq record',
           \A e \in record' \ record :
              /\ ask[a].at = "record"
              /\ e.ask = a /\ e.status \in {"success", "failed"} /\ Recorded(e, k)'
              /\ \A f \in record' \ record : f = e,
           record' \subseteq [ask : Asks, status : {"success", "failed"}]
    PROVE  AssistantInv'
<1>1. ask' \in [Asks -> Ask] /\ ask'[a] = k /\ \A b \in Asks \ {a} : ask'[b] = ask[b]
  BY DEF AssistantInv, TypeOK
<1>2. TypeOK'
  BY <1>1 DEF AssistantInv, TypeOK, ChatInv
<1>3. DealtStay
  BY DEF DealtStay
<1>4. ASSUME NEW b \in Asks PROVE InFlight(b, ask[b])' /\ Published(b, ask[b])'
  <2>1. CASE b = a
    BY <1>1, <2>1
  <2>2. CASE b # a
    BY <1>1, <1>3, <2>2, UnmovedAsk
  <2> QED
    BY <2>1, <2>2
<1>5. ASSUME NEW m \in MessageIds, about'[m] # None
      PROVE  message'[m] # None /\ Belongs(message[m], ask[about[m]])'
  <2>1. CASE about'[m] # about[m]
    BY <1>1, <2>1
  <2>2. CASE about'[m] = about[m]
    <3>1. about[m] \in Asks /\ Belongs(message[m], ask[about[m]])
          /\ InFlight(about[m], ask[about[m]])
      BY <1>5, <2>2 DEF AssistantInv, TypeOK
    <3>2. ask[about[m]].at \notin {"idle", "question"}
      BY <3>1 DEF Belongs
    <3>3. about[m] = a => ask[about[m]].told # "ok"
      BY <3>1 DEF InFlight
    <3>4. PICK new \in Ask : new = ask'[about[m]]
      BY <1>1, <3>1
    <3>5. /\ new.req = ask[about[m]].req /\ new.at \notin {"idle", "question"}
          /\ ask[about[m]].told = "ok" => new.told = "ok"
      BY <1>1, <3>1, <3>2, <3>3, <3>4
    <3>6. message' \in [MessageIds -> MessageRow \cup {None}]
      BY <1>2 DEF TypeOK, ChatTypeOK
    <3> QED
      BY <1>3, <1>5, <2>2, <3>4, <3>5, <3>6, UnmovedMessage
  <2> QED
    BY <2>1, <2>2
<1>6. ASSUME NEW e \in record PROVE Recorded(e, ask[e.ask])' /\ e.ask \in Asks
  <2>1. e.ask \in Asks /\ Recorded(e, ask[e.ask])
    BY DEF AssistantInv, TypeOK
  <2>2. \/ ask'[e.ask] = ask[e.ask]
        \/ /\ ask[e.ask].at = "answer"
           /\ ask'[e.ask].at = "done" /\ ask'[e.ask].told \in {"ok", "lost"}
    BY <1>1, <2>1 DEF Recorded
  <2>3. asked \subseteq asked'
    OBVIOUS
  <2> QED
    BY <2>1, <2>2, <2>3, UnmovedEntry
<1>7. ASSUME NEW e \in record' \ record PROVE Recorded(e, ask[e.ask])'
  BY <1>1
<1>8. ASSUME NEW e \in record', NEW f \in record', f.ask = e.ask PROVE f = e
  <2>1. \A g \in record : g.ask = a => ask[a].at # "record"
    BY DEF AssistantInv, Recorded
  <2> QED
    BY <1>8, <2>1 DEF AssistantInv
<1>9. ASSUME NEW b \in Asks, NEW m \in seen'[b]
      PROVE  message'[m] # None /\ message'[m].side \in {"client", "manager"}
  <2>1. m \in MessageIds /\ message[m] # None /\ message[m].side \in {"client", "manager"}
    BY DEF AssistantInv, TypeOK
  <2> QED
    BY <2>1 DEF MessagesStay
<1> QED
  BY <1>2, <1>4, <1>5, <1>6, <1>7, <1>8, <1>9 DEF AssistantInv
-----------------------------------------------------------------------------
(* How a step moves one request.                                           *)
LEMMA GoTyped ==
    ASSUME TypeOK, NEW a \in Asks, NEW step \in AskSteps, Go(a, step)
    PROVE  \E k \in Ask : /\ ask' = [ask EXCEPT ![a] = k]
                          /\ k.at = step /\ k.req = ask[a].req
                          /\ k.outcome = ask[a].outcome /\ k.told = ask[a].told
<1> DEFINE k == [ask[a] EXCEPT !.at = step]
<1>1. /\ k \in Ask /\ k.at = step /\ k.req = ask[a].req
      /\ k.outcome = ask[a].outcome /\ k.told = ask[a].told
  BY DEF TypeOK, Ask
<1>2. ask' = [ask EXCEPT ![a] = k]
  BY DEF Go
<1> QED
  BY <1>1, <1>2

LEMMA EndTyped ==
    ASSUME TypeOK, NEW a \in Asks, NEW result \in AskResults, End(a, result)
    PROVE  \E k \in Ask : /\ ask' = [ask EXCEPT ![a] = k]
                          /\ k.at = "done" /\ k.req = ask[a].req /\ k.told = result
<1> DEFINE k == [ask[a] EXCEPT !.at = "done", !.outcome = None, !.told = result]
<1>1. k \in Ask /\ k.at = "done" /\ k.req = ask[a].req /\ k.told = result
  <2>1. \A j \in Ask :
          LET n == [j EXCEPT !.at = "done", !.outcome = None, !.told = result] IN
          n \in Ask /\ n.at = "done" /\ n.req = j.req /\ n.told = result
    BY DEF Ask, AskSteps
  <2>2. ask[a] \in Ask
    BY DEF TypeOK
  <2> QED
    BY <2>1, <2>2
<1>2. ask' = [ask EXCEPT ![a] = k]
  BY DEF End
<1> QED
  BY <1>1, <1>2

LEMMA FailsTyped ==
    ASSUME TypeOK, NEW a \in Asks, NEW outcome \in Outcomes, Fails(a, outcome)
    PROVE  \E k \in Ask : /\ ask' = [ask EXCEPT ![a] = k]
                          /\ k.at = "record" /\ k.req = ask[a].req
                          /\ k.outcome = outcome /\ k.told = ask[a].told
<1> DEFINE k == [ask[a] EXCEPT !.at = "record", !.outcome = outcome]
<1>1. /\ k \in Ask /\ k.at = "record" /\ k.req = ask[a].req
      /\ k.outcome = outcome /\ k.told = ask[a].told
  <2>1. \A j \in Ask :
          LET n == [j EXCEPT !.at = "record", !.outcome = outcome] IN
          /\ n \in Ask /\ n.at = "record" /\ n.req = j.req
          /\ n.outcome = outcome /\ n.told = j.told
    BY DEF Ask, AskSteps
  <2>2. ask[a] \in Ask
    BY DEF TypeOK
  <2> QED
    BY <2>1, <2>2
<1>2. ask' = [ask EXCEPT ![a] = k]
  BY DEF Fails
<1> QED
  BY <1>1, <1>2

LEMMA AnswersTyped ==
    ASSUME NEW a \in Asks, NEW r \in AskRequests, NEW step \in AskSteps,
           NEW result \in AskResults, Answers(a, r, step, result)
    PROVE  \E k \in Ask : /\ ask' = [ask EXCEPT ![a] = k]
                          /\ k.at = step /\ k.req = r /\ k.told = result
<1> DEFINE k == [at |-> step, req |-> r, outcome |-> None, told |-> result]
<1>1. k \in Ask /\ k.at = step /\ k.req = r /\ k.told = result
  BY DEF Ask
<1>2. ask' = [ask EXCEPT ![a] = k]
  BY DEF Answers
<1> QED
  BY <1>1, <1>2

(* A step that leaves chat alone.                                          *)
LEMMA ChatStays ==
    ASSUME AssistantInv, UNCHANGED chatVars
    PROVE  ChatInv' /\ SessionsEvolve /\ MessagesStay
<1>1. ChatInv'
  BY StepInv DEF AssistantInv
<1>2. SessionsEvolve
  BY Unmoved DEF chatVars
<1>3. MessagesStay
  BY DEF MessagesStay, chatVars
<1> QED
  BY <1>1, <1>2, <1>3

(* A step of request a that only asks, waits or gives up.                  *)
LEMMA QuietInv ==
    ASSUME AssistantInv, UNCHANGED <<chatVars, dealt, record, seen, about>>,
           NEW a \in Asks, NEW k \in Ask, ask' = [ask EXCEPT ![a] = k],
           ask[a].at \in {"idle", "question"} \/ k.at \notin {"idle", "question"},
           ask[a].at = "idle" \/ k.req = ask[a].req,
           ask[a].at # "done", ask[a].at = "answer" => k.at = "done" /\ k.told \in {"ok", "lost"},
           asked' \in {asked, asked \cup {a}}, open' \subseteq asked',
           callback' \in [Asks -> Replies \cup {None}],
           InFlight(a, k)', Published(a, k)'
    PROVE  AssistantInv'
<1>1. ChatInv' /\ SessionsEvolve /\ MessagesStay
  BY ChatStays
<1>2. /\ about' \in [MessageIds -> Asks \cup {None}]
      /\ \A m \in MessageIds : about'[m] = about[m]
      /\ record' \subseteq [ask : Asks, status : {"success", "failed"}]
      /\ record \subseteq record' /\ record' \ record = {}
  BY DEF AssistantInv, TypeOK
<1> QED
  BY <1>1, <1>2, AskStepInv

LEMMA StaysAdmissible ==
    ASSUME NEW r \in AskRequests, Admissible(r), UNCHANGED <<chatVars, dealt>>
    PROVE  Admissible(r)'
BY DEF Admissible, chatVars

(* A step of chat or of a deal, which may go on while the assistant works. *)
LEMMA ElsewhereInv ==
    ASSUME AssistantInv, UNCHANGED <<ask, agentVars, record, seen, about>>,
           ChatInv', SessionsEvolve, MessagesStay,
           dealt' \in [Deals -> DealRow \cup {None}], DealtStay
    PROVE  AssistantInv'
<1>1. TypeOK'
  BY DEF AssistantInv, TypeOK, ChatInv, agentVars
<1>2. \A a \in Asks : InFlight(a, ask[a])' /\ Published(a, ask[a])'
  BY UnmovedAsk DEF agentVars
<1>3. ASSUME NEW m \in MessageIds, about'[m] # None
      PROVE  message'[m] # None /\ Belongs(message[m], ask[about[m]])'
  <2>1. /\ about[m] \in Asks /\ about'[m] = about[m] /\ ask[about[m]] \in Ask
        /\ Belongs(message[m], ask[about[m]])
    BY <1>3 DEF AssistantInv, TypeOK
  <2>2. PICK k \in Ask : k = ask[about[m]] /\ k = ask'[about[m]]
    BY <2>1
  <2>3. k.at \notin {"idle", "question"}
    BY <2>1, <2>2 DEF Belongs
  <2>4. message' \in [MessageIds -> MessageRow \cup {None}]
    BY <1>1 DEF TypeOK, ChatTypeOK
  <2> QED
    BY <1>3, <2>1, <2>2, <2>3, <2>4, UnmovedMessage
<1>4. \A e \in record : Recorded(e, ask[e.ask])'
  BY UnmovedEntry DEF agentVars
<1>5. ASSUME NEW a \in Asks, NEW m \in seen[a]
      PROVE  message'[m] # None /\ message'[m].side \in {"client", "manager"}
  <2>1. m \in MessageIds /\ message[m] # None /\ message[m].side \in {"client", "manager"}
    BY DEF AssistantInv, TypeOK
  <2> QED
    BY <2>1 DEF MessagesStay
<1> QED
  BY <1>1, <1>2, <1>3, <1>4, <1>5 DEF AssistantInv

LEMMA ChatStepKeeps ==
    ASSUME AssistantInv, ChatNext, UNCHANGED <<dealt, ask, agentVars, record, seen, about>>
    PROVE  AssistantInv'
<1>1. ChatInv' /\ SessionsEvolve /\ MessagesStay
  BY StepInv, ChatEvolves DEF AssistantInv
<1>2. dealt' \in [Deals -> DealRow \cup {None}] /\ DealtStay
  BY DEF AssistantInv, TypeOK, DealtStay
<1> QED
  BY <1>1, <1>2, ElsewhereInv

LEMMA OpenDealInv ==
    ASSUME AssistantInv, NEW d \in Deals, OpenDeal(d)
    PROVE  AssistantInv'
<1>1. PICK row \in DealRow : dealt[d] = None /\ dealt' = [dealt EXCEPT ![d] = row]
  BY DealtAssumption DEF OpenDeal
<1>2. dealt' \in [Deals -> DealRow \cup {None}] /\ DealtStay
  BY <1>1 DEF AssistantInv, TypeOK, DealtStay
<1>3. ChatInv' /\ SessionsEvolve /\ MessagesStay
  BY ChatStays DEF OpenDeal
<1> QED
  BY <1>2, <1>3, ElsewhereInv DEF OpenDeal
-----------------------------------------------------------------------------
(* The read that admits a request, or turns it away.                       *)
LEMMA EnteredInv ==
    ASSUME AssistantInv, NEW a \in Asks, NEW r \in AskRequests, ask[a].at = "idle",
           NEW step \in {"question", "send", "done"}, NEW result \in AskResults \ {"ok"},
           Answers(a, r, step, result), step # "done" => Admissible(r) /\ result = "lost",
           step = "question" => ByClient(r),
           UNCHANGED <<chatVars, dealt, agentVars, record, seen, about>>
    PROVE  AssistantInv'
<1>1. PICK k \in Ask : /\ ask' = [ask EXCEPT ![a] = k]
                       /\ k.at = step /\ k.req = r /\ k.told = result
  BY AnswersTyped DEF AskSteps
<1>2. a \notin asked
  BY DEF AssistantInv, Published
<1>3. Admissible(r) => Admissible(r)'
  BY StaysAdmissible
<1>4. InFlight(a, k)'
  BY <1>1, <1>3 DEF InFlight, ByClient
<1>5. Published(a, k)'
  BY <1>2 DEF Published, agentVars
<1>6. /\ asked' = asked /\ open' \subseteq asked'
      /\ callback' \in [Asks -> Replies \cup {None}]
  BY DEF AssistantInv, TypeOK, agentVars
<1> QED
  BY <1>1, <1>4, <1>5, <1>6, QuietInv

LEMMA ReadForChatInv ==
    ASSUME AssistantInv, NEW a \in Asks, NEW r \in AskRequests, ReadForChat(a, r)
    PROVE  AssistantInv'
<1>1. /\ ask[a].at = "idle" /\ r.op = "chat"
      /\ UNCHANGED <<chatVars, dealt, agentVars, record, seen, about>>
  BY DEF ReadForChat
<1>2. {"bad_request", "not_found", "forbidden", "lost"} \subseteq AskResults \ {"ok"}
  BY DEF AskResults
<1>3. ASSUME NEW result \in {"bad_request", "not_found", "forbidden"},
             Answers(a, r, "done", result)
      PROVE  AssistantInv'
  <2>1. ASSUME NEW step \in {"question", "send", "done"}, step = "done"
        PROVE  /\ step # "done" => Admissible(r) /\ result = "lost"
               /\ step = "question" => ByClient(r)
    BY <2>1
  <2> QED
    BY <1>1, <1>2, <1>3, <2>1, EnteredInv
<1>4. CASE /\ session[r.session] # None /\ MayAsk(r.actor, session[r.session])
           /\ Answers(a, r, IF Role[r.actor] = "user" THEN "question" ELSE "send", "lost")
  <2>1. Admissible(r)
    BY <1>1, <1>4 DEF Admissible, MayAsk, CanRead, CanManage
  <2>2. CASE Role[r.actor] = "user"
    BY <1>1, <1>2, <1>4, <2>1, <2>2, EnteredInv DEF ByClient
  <2>3. CASE Role[r.actor] # "user"
    BY <1>1, <1>2, <1>4, <2>1, <2>3, EnteredInv
  <2> QED
    BY <2>2, <2>3
<1> QED
  BY <1>3, <1>4 DEF ReadForChat

LEMMA ReadForDialogInv ==
    ASSUME AssistantInv, NEW a \in Asks, NEW r \in AskRequests, ReadForDialog(a, r)
    PROVE  AssistantInv'
<1>1. /\ ask[a].at = "idle" /\ r.op # "chat"
      /\ UNCHANGED <<chatVars, dealt, agentVars, record, seen, about>>
  BY DEF ReadForDialog
<1>2. {"bad_request", "forbidden", "lost"} \subseteq AskResults \ {"ok"}
  BY DEF AskResults
<1>3. ASSUME NEW result \in {"bad_request", "forbidden"}, Answers(a, r, "done", result)
      PROVE  AssistantInv'
  BY <1>1, <1>2, <1>3, EnteredInv
<1>4. CASE MayUseDeal(r.actor, r.deal) /\ Answers(a, r, "send", "lost")
  <2>1. Admissible(r)
    BY <1>1, <1>4 DEF Admissible, MayUseDeal
  <2> QED
    BY <1>1, <1>2, <1>4, <2>1, EnteredInv
<1> QED
  BY <1>3, <1>4 DEF ReadForDialog
-----------------------------------------------------------------------------
(* What a request says in its session: at most one message more.           *)
LEMMA SaysOK ==
    ASSUME AssistantInv, NEW a \in Asks, NEW s \in SessionIds, s = ask[a].req.session,
           session[s] # None, NEW author \in Users \cup {None}, NEW side \in {"client", "ai"},
           Says(a, author, side), UNCHANGED <<session, rejections, chat>>
    PROVE  /\ ChatInv' /\ SessionsEvolve /\ MessagesStay
           /\ about' \in [MessageIds -> Asks \cup {None}]
           /\ \A m \in MessageIds :
                \/ about'[m] = about[m]
                \/ /\ about'[m] = a /\ message'[m] \in MessageRow
                   /\ message'[m].session = s /\ message'[m].author = author
                   /\ message'[m].side = side
<1>1. SessionsEvolve
  BY Unmoved
<1>2. about \in [MessageIds -> Asks \cup {None}] /\ message \in [MessageIds -> MessageRow \cup {None}]
  BY DEF AssistantInv, TypeOK, ChatTypeOK
<1>3. GeneralUnassigned' /\ session' \in [SessionIds -> SessionRow \cup {None}]
  BY DEF AssistantInv, ChatInv, ChatTypeOK, GeneralUnassigned
<1>4. CASE UNCHANGED <<message, about>>
  <2>1. MessagesStay /\ ChatInv'
    BY <1>4, StepInv DEF MessagesStay, AssistantInv, chatVars
  <2> QED
    BY <1>1, <1>2, <1>4, <2>1
<1>5. CASE /\ SendsMessage(s, author, side)
           /\ about' = [m \in MessageIds |-> IF message'[m] # message[m] THEN a ELSE about[m]]
  <2>1. message' \in [MessageIds -> MessageRow \cup {None}] /\ MessagesOK'
    BY <1>5, SendsMessageOK DEF AssistantInv
  <2>2. MessagesStay
    BY <1>5, SentStay DEF AssistantInv
  <2>3. ChatInv'
    BY <1>1, <1>3, <2>1, OutsideStepInv DEF AssistantInv
  <2> DEFINE new == [session |-> s, author |-> author, side |-> side, read |-> FALSE]
  <2>4. \A m \in MessageIds : message'[m] \in {message[m], new}
    BY <1>2, <1>5 DEF SendsMessage
  <2>5. new \in MessageRow /\ new.session = s /\ new.author = author /\ new.side = side
    BY DEF MessageRow
  <2> HIDE DEF new
  <2> QED
    BY <1>1, <1>2, <1>5, <2>2, <2>3, <2>4, <2>5
<1> QED
  BY <1>4, <1>5 DEF Says

(* A request that has just written to its session, or was not able to.     *)
LEMMA SpokenInv ==
    ASSUME AssistantInv, NEW a \in Asks, NEW k \in Ask, ask' = [ask EXCEPT ![a] = k],
           k.req = ask[a].req, NEW author \in Users \cup {None}, NEW side \in {"client", "ai"},
           Says(a, author, side),
           \/ ask[a].at = "question" /\ k.at = "send" /\ k.told = "lost"
              /\ side = "client" /\ author = k.req.actor
           \/ ask[a].at = "answer" /\ k.at = "done" /\ k.told = "ok" /\ side = "ai",
           UNCHANGED <<session, rejections, chat, dealt, agentVars, record, seen>>
    PROVE  AssistantInv'
<1>1. InFlight(a, ask[a]) /\ Published(a, ask[a]) /\ ask[a] \in Ask
  BY DEF AssistantInv, TypeOK
<1>2. k.req \in AskRequests /\ ByClient(k.req) /\ Admissible(k.req)
  BY <1>1 DEF InFlight
<1>3. k.req.session \in SessionIds /\ session[k.req.session] # None
  BY <1>2, AskRequestKinds DEF ByClient, Admissible
<1>4. PICK s \in SessionIds : s = k.req.session /\ s = ask[a].req.session /\ session[s] # None
  BY <1>3
<1>5. /\ ChatInv' /\ SessionsEvolve /\ MessagesStay
      /\ about' \in [MessageIds -> Asks \cup {None}]
      /\ \A m \in MessageIds :
           \/ about'[m] = about[m]
           \/ /\ about'[m] = a /\ message'[m] \in MessageRow
              /\ message'[m].session = s /\ message'[m].author = author
              /\ message'[m].side = side
  <2>1. UNCHANGED <<session, rejections, chat>>
    OBVIOUS
  <2> QED
    BY <1>4, <2>1, SaysOK
<1>6. DealtStay
  BY DEF DealtStay
<1>7. Admissible(k.req)'
  BY <1>2, <1>5, <1>6, AdmissibleKept
<1>8. InFlight(a, k)' /\ Published(a, k)'
  BY <1>1, <1>2, <1>7 DEF InFlight, Published, agentVars
<1>9. ASSUME NEW m \in MessageIds, about'[m] # about[m]
      PROVE  about'[m] = a /\ message'[m] # None /\ Belongs(message[m], k)'
  <2>1. PICK row \in MessageRow :
          /\ row = message'[m] /\ about'[m] = a
          /\ row.session = s /\ row.author = author /\ row.side = side
    BY <1>5, <1>9
  <2>2. Belongs(row, k)'
    BY <1>2, <1>4, <1>7, <2>1 DEF Belongs, ByClient
  <2> QED
    BY <2>1, <2>2, NoneIsNoAsk
<1>10. /\ asked' = asked /\ open' \subseteq asked'
       /\ callback' \in [Asks -> Replies \cup {None}]
       /\ record' \subseteq [ask : Asks, status : {"success", "failed"}]
       /\ record \subseteq record' /\ record' \ record = {}
  BY DEF AssistantInv, TypeOK, agentVars
<1>11. \A m \in MessageIds :
          \/ about'[m] = about[m]
          \/ about'[m] = a /\ message'[m] # None /\ Belongs(message[m], k)'
  BY <1>9
<1> QED
  BY <1>5, <1>8, <1>10, <1>11, AskStepInv

LEMMA QuestionInv ==
    ASSUME AssistantInv, NEW a \in Asks, Question(a)
    PROVE  AssistantInv'
<1>1. InFlight(a, ask[a]) /\ ask[a].at = "question"
  BY DEF AssistantInv, Question
<1>2. PICK k \in Ask : /\ ask' = [ask EXCEPT ![a] = k]
                       /\ k.at = "send" /\ k.req = ask[a].req /\ k.told = "lost"
  BY <1>1, GoTyped DEF Question, AskSteps, AssistantInv, InFlight
<1>3. PICK u \in Users : u = k.req.actor
  BY <1>1, <1>2, AskRequestKinds DEF InFlight
<1> QED
  BY <1>1, <1>2, <1>3, SpokenInv DEF Question

LEMMA AnswerInv ==
    ASSUME AssistantInv, NEW a \in Asks, Answer(a)
    PROVE  AssistantInv'
<1>1. PICK k \in Ask : /\ ask' = [ask EXCEPT ![a] = k]
                       /\ k.at = "done" /\ k.req = ask[a].req /\ k.told = "ok"
  BY EndTyped DEF Answer, AskResults, AssistantInv
<1> QED
  BY <1>1, SpokenInv DEF Answer
-----------------------------------------------------------------------------
(* A step after which request a stands at k, and nothing was said.         *)
LEMMA SendInv ==
    ASSUME AssistantInv, NEW a \in Asks, Send(a)
    PROVE  AssistantInv'
<1>1. /\ InFlight(a, ask[a]) /\ Published(a, ask[a]) /\ ask[a].at = "send"
      /\ UNCHANGED <<chatVars, dealt, record, seen, about>>
  BY DEF AssistantInv, Send
<1>2. a \notin asked /\ ask[a].told = "lost" /\ ask[a].req \in AskRequests
      /\ Admissible(ask[a].req)
  BY <1>1 DEF InFlight, Published
<1>3. PICK r \in AskRequests : r = ask[a].req
  BY <1>2
<1>4. Admissible(r)'
  BY <1>1, <1>2, <1>3, StaysAdmissible
<1>5. /\ open \subseteq asked /\ callback \in [Asks -> Replies \cup {None}]
  BY DEF AssistantInv, TypeOK
<1>6. ASSUME NEW outcome \in {"unavailable", "broken"}, Fails(a, outcome), UNCHANGED agentVars
      PROVE  AssistantInv'
  <2>1. outcome \in Outcomes /\ ~Succeeded(outcome)
    BY DEF Outcomes, Succeeded
  <2>2. PICK k \in Ask : /\ ask' = [ask EXCEPT ![a] = k]
                         /\ k.at = "record" /\ k.req = r
                         /\ k.outcome = outcome /\ k.told = "lost"
    BY <1>2, <1>3, <1>6, <2>1, FailsTyped DEF AssistantInv
  <2>3. InFlight(a, k)' /\ Published(a, k)'
    BY <1>2, <1>4, <1>6, <2>1, <2>2 DEF InFlight, Published, agentVars
  <2> QED
    BY <1>1, <1>3, <1>5, <1>6, <2>2, <2>3, QuietInv DEF agentVars
<1>7. CASE /\ Go(a, "wait") /\ asked' = asked \cup {a} /\ open' = open \cup {a}
           /\ UNCHANGED callback
  <2>1. PICK k \in Ask : /\ ask' = [ask EXCEPT ![a] = k]
                         /\ k.at = "wait" /\ k.req = r /\ k.told = "lost"
    BY <1>2, <1>3, <1>7, GoTyped DEF AssistantInv, AskSteps
  <2>2. InFlight(a, k)' /\ Published(a, k)'
    BY <1>4, <1>7, <2>1 DEF InFlight, Published
  <2> QED
    BY <1>1, <1>3, <1>5, <1>7, <2>1, <2>2, QuietInv
<1> QED
  BY <1>6, <1>7 DEF Send

LEMMA ReceiveInv ==
    ASSUME AssistantInv, NEW a \in Asks, Receive(a)
    PROVE  AssistantInv'
<1>1. /\ InFlight(a, ask[a]) /\ ask[a].at = "wait"
      /\ open' = open \ {a} /\ callback' = [callback EXCEPT ![a] = None]
      /\ UNCHANGED <<chatVars, dealt, asked, record, seen, about>>
  BY DEF AssistantInv, Receive
<1>2. a \in asked /\ ask[a].told = "lost" /\ ask[a].req \in AskRequests
      /\ Admissible(ask[a].req)
  BY <1>1 DEF InFlight
<1>3. PICK r \in AskRequests : r = ask[a].req
  BY <1>2
<1>4. Admissible(r)'
  BY <1>1, <1>2, <1>3, StaysAdmissible
<1>5. open' \subseteq asked' /\ callback' \in [Asks -> Replies \cup {None}]
  BY <1>1 DEF AssistantInv, TypeOK
<1>6. PICK outcome \in Outcomes : Fails(a, outcome)
  <2>1. callback[a] # None => callback[a] \in Outcomes
    BY DEF AssistantInv, TypeOK, Outcomes
  <2>2. "timeout" \in Outcomes /\ "broken" \in Outcomes
    BY DEF Outcomes
  <2> QED
    BY <2>1, <2>2 DEF Receive
<1>7. PICK k \in Ask : /\ ask' = [ask EXCEPT ![a] = k]
                       /\ k.at = "record" /\ k.req = r
                       /\ k.outcome = outcome /\ k.told = "lost"
  BY <1>2, <1>3, <1>6, FailsTyped DEF AssistantInv
<1>8. InFlight(a, k)' /\ Published(a, k)'
  BY <1>1, <1>2, <1>4, <1>7 DEF InFlight, Published
<1> QED
  BY <1>1, <1>3, <1>5, <1>7, <1>8, QuietInv

LEMMA AbandonsInv ==
    ASSUME AssistantInv, NEW a \in Asks, Abandon(a)
    PROVE  AssistantInv'
<1>1. /\ InFlight(a, ask[a]) /\ Published(a, ask[a]) /\ ask[a].at \notin {"idle", "done"}
      /\ open' = open \ {a} /\ callback' = [callback EXCEPT ![a] = None]
      /\ UNCHANGED <<chatVars, dealt, asked, record, seen, about>>
  BY DEF AssistantInv, Abandon
<1>2. PICK r \in AskRequests : r = ask[a].req
  BY <1>1 DEF InFlight
<1>3. a \in asked => Admissible(r)'
  BY <1>1, <1>2, StaysAdmissible DEF Published
<1>4. open' \subseteq asked' /\ callback' \in [Asks -> Replies \cup {None}]
  BY <1>1 DEF AssistantInv, TypeOK
<1>5. PICK k \in Ask : /\ ask' = [ask EXCEPT ![a] = k]
                       /\ k.at = "done" /\ k.req = r /\ k.told = "lost"
  BY <1>2, EndTyped DEF Abandon, AskResults, AssistantInv
<1>6. InFlight(a, k)' /\ Published(a, k)'
  BY <1>1, <1>3, <1>5 DEF InFlight, Published
<1> QED
  BY <1>1, <1>2, <1>4, <1>5, <1>6, QuietInv
-----------------------------------------------------------------------------
LEMMA RepliesKnown ==
    ASSUME NEW outcome \in Outcomes, NEW op
    PROVE  /\ Told(op, outcome) \in AskResults
           /\ Told(op, outcome) = "ok" <=> Succeeded(outcome)
           /\ Status(outcome) \in {"success", "failed"}
           /\ Status(outcome) = "success" <=> Succeeded(outcome)
BY DEF Told, AskResults, Status, Succeeded, Outcomes, Replies

LEMMA RecordInv ==
    ASSUME AssistantInv, NEW a \in Asks, Record(a)
    PROVE  AssistantInv'
<1>1. /\ InFlight(a, ask[a]) /\ Published(a, ask[a]) /\ ask[a].at = "record"
      /\ UNCHANGED <<chatVars, dealt, agentVars, seen, about>>
  BY DEF AssistantInv, Record
<1>2. /\ ask[a].outcome \in Outcomes
      /\ Succeeded(ask[a].outcome) => a \in asked
      /\ ask[a].told = "lost"
  BY <1>1 DEF InFlight
<1>3. PICK r \in AskRequests, outcome \in Outcomes :
         r = ask[a].req /\ outcome = ask[a].outcome /\ Admissible(r)
  BY <1>1, <1>2 DEF InFlight
<1>4. Admissible(r)'
  BY <1>1, <1>3, StaysAdmissible
<1>5. PICK k \in Ask :
         /\ ask' = [ask EXCEPT ![a] = k] /\ k.req = r
         /\ \/ k.at = "answer" /\ k.told = "lost" /\ Succeeded(outcome) /\ ByClient(r)
            \/ k.at = "done" /\ k.told = Told(r.op, outcome)
  <2>1. CASE Shared(a) /\ Go(a, "answer")
    BY <1>2, <1>3, <2>1, GoTyped DEF Shared, ByClient, Succeeded, AssistantInv, AskSteps
  <2>2. CASE End(a, Told(r.op, outcome))
    BY <1>2, <1>3, <2>2, EndTyped, RepliesKnown DEF AssistantInv
  <2> QED
    BY <1>3, <2>1, <2>2 DEF Record
<1>6. InFlight(a, k)' /\ Published(a, k)'
  BY <1>1, <1>2, <1>3, <1>4, <1>5, RepliesKnown DEF InFlight, Published, agentVars
<1>7. ASSUME NEW e \in record' \ record
      PROVE  /\ e = [ask |-> a, status |-> Status(outcome)]
             /\ e.ask = a /\ e.status \in {"success", "failed"} /\ Recorded(e, k)'
  <2>1. e = [ask |-> a, status |-> Status(outcome)]
    BY <1>3 DEF Record
  <2>2. e.ask = a /\ e.status = Status(outcome)
    BY <2>1
  <2> QED
    BY <1>1, <1>2, <1>3, <1>5, <2>1, <2>2, RepliesKnown DEF Recorded, agentVars
<1>8. /\ record \subseteq record'
      /\ record' \subseteq [ask : Asks, status : {"success", "failed"}]
  BY <1>7 DEF Record, AssistantInv, TypeOK
<1>9. /\ asked' = asked /\ open' \subseteq asked'
      /\ callback' \in [Asks -> Replies \cup {None}]
      /\ about' \in [MessageIds -> Asks \cup {None}] /\ \A m \in MessageIds : about'[m] = about[m]
  BY <1>1 DEF AssistantInv, TypeOK, agentVars
<1>10. ChatInv' /\ SessionsEvolve /\ MessagesStay
  BY <1>1, ChatStays
<1>11. \A e \in record' \ record :
          /\ ask[a].at = "record"
          /\ e.ask = a /\ e.status \in {"success", "failed"} /\ Recorded(e, k)'
          /\ \A f \in record' \ record : f = e
  BY <1>1, <1>7
<1> QED
  BY <1>1, <1>3, <1>5, <1>6, <1>8, <1>9, <1>10, <1>11, AskStepInv
-----------------------------------------------------------------------------
(* A step of the broker or of the agent.                                   *)
LEMMA BrokerInv ==
    ASSUME AssistantInv, UNCHANGED <<chatVars, dealt, ask, asked, record, about>>,
           open' \subseteq asked, callback' \in [Asks -> Replies \cup {None}],
           seen' \in [Asks -> SUBSET MessageIds],
           \A a \in Asks : \A m \in seen'[a] :
              m \in seen[a] \/ (message[m] # None /\ message[m].side \in {"client", "manager"})
    PROVE  AssistantInv'
<1>1. ChatInv' /\ SessionsEvolve /\ MessagesStay
  BY ChatStays
<1>2. TypeOK'
  BY <1>1 DEF AssistantInv, TypeOK, ChatInv
<1>3. DealtStay
  BY DEF DealtStay
<1>4. \A a \in Asks : InFlight(a, ask[a])' /\ Published(a, ask[a])'
  BY <1>1, <1>3, UnmovedAsk
<1>5. ASSUME NEW m \in MessageIds, about'[m] # None
      PROVE  message'[m] # None /\ Belongs(message[m], ask[about[m]])'
  <2>1. /\ about[m] \in Asks /\ about'[m] = about[m] /\ ask[about[m]] \in Ask
        /\ Belongs(message[m], ask[about[m]])
    BY <1>5 DEF AssistantInv, TypeOK
  <2>2. PICK k \in Ask : k = ask[about[m]] /\ k = ask'[about[m]]
    BY <2>1
  <2>3. k.at \notin {"idle", "question"}
    BY <2>1, <2>2 DEF Belongs
  <2>4. message' \in [MessageIds -> MessageRow \cup {None}]
    BY <1>2 DEF TypeOK, ChatTypeOK
  <2> QED
    BY <1>1, <1>3, <1>5, <2>1, <2>2, <2>3, <2>4, UnmovedMessage
<1>6. \A e \in record : Recorded(e, ask[e.ask])'
  BY UnmovedEntry
<1>7. \A a \in Asks : \A m \in seen'[a] :
         message[m] # None /\ message[m].side \in {"client", "manager"}
  BY DEF AssistantInv
<1> QED
  BY <1>1, <1>2, <1>4, <1>5, <1>6, <1>7 DEF AssistantInv, chatVars

LEMMA LoseConnectionInv ==
    ASSUME AssistantInv, LoseConnection
    PROVE  AssistantInv'
<1>1. /\ callback' \in [Asks -> Replies \cup {None}] /\ open' \subseteq asked
      /\ seen' \in [Asks -> SUBSET MessageIds]
      /\ \A a \in Asks : \A m \in seen'[a] :
            m \in seen[a] \/ (message[m] # None /\ message[m].side \in {"client", "manager"})
  BY DEF AssistantInv, TypeOK, LoseConnection
<1> QED
  BY <1>1, BrokerInv DEF LoseConnection, agentVars

LEMMA ReplyInv ==
    ASSUME AssistantInv, NEW a \in Asks, Reply(a)
    PROVE  AssistantInv'
<1>1. /\ callback' \in [Asks -> Replies \cup {None}] /\ open' \subseteq asked
      /\ seen' \in [Asks -> SUBSET MessageIds]
      /\ \A b \in Asks : \A m \in seen'[b] :
            m \in seen[b] \/ (message[m] # None /\ message[m].side \in {"client", "manager"})
  BY DEF AssistantInv, TypeOK, Reply
<1> QED
  BY <1>1, BrokerInv DEF Reply, agentVars

LEMMA ReadDialogInv ==
    ASSUME AssistantInv, NEW a \in Asks, ReadDialog(a)
    PROVE  AssistantInv'
<1>1. PICK given \in SUBSET MessageIds :
        /\ seen' = [seen EXCEPT ![a] = given]
        /\ \A m \in given : message[m] # None /\ message[m].side \in {"client", "manager"}
  BY DEF ReadDialog, Dialog, DialogWithAnswers, Messages
<1>2. /\ seen' \in [Asks -> SUBSET MessageIds]
      /\ \A b \in Asks : \A m \in seen'[b] :
            m \in seen[b] \/ (message[m] # None /\ message[m].side \in {"client", "manager"})
  BY <1>1 DEF AssistantInv, TypeOK
<1>3. callback' \in [Asks -> Replies \cup {None}] /\ open' \subseteq asked
  BY DEF AssistantInv, TypeOK, ReadDialog, agentVars
<1> QED
  BY <1>2, <1>3, BrokerInv DEF ReadDialog, agentVars
-----------------------------------------------------------------------------
LEMMA AssistantInitInv == Init => AssistantInv
<1> SUFFICES ASSUME Init PROVE AssistantInv
  OBVIOUS
<1>1. ChatInv
  BY InitInv DEF Init
<1>2. [at |-> "idle", req |-> None, outcome |-> None, told |-> "lost"] \in Ask
  BY DEF Ask, AskSteps, AskResults
<1>3. TypeOK
  BY <1>1, <1>2 DEF Init, TypeOK, ChatInv
<1>4. \A a \in Asks : InFlight(a, ask[a]) /\ Published(a, ask[a])
  BY DEF Init, InFlight, Published
<1> QED
  BY <1>1, <1>3, <1>4 DEF Init, AssistantInv

LEMMA AssistantStepInv == AssistantInv /\ [Next]_vars => AssistantInv'
<1> SUFFICES ASSUME AssistantInv, [Next]_vars PROVE AssistantInv'
  OBVIOUS
<1>1. CASE ChatNext /\ UNCHANGED <<dealt, ask, agentVars, record, seen, about>>
  BY <1>1, ChatStepKeeps
<1>2. ASSUME NEW d \in Deals, OpenDeal(d) PROVE AssistantInv'
  BY <1>2, OpenDealInv
<1>3. ASSUME NEW a \in Asks, NEW r \in AskRequests, ReadForChat(a, r) \/ ReadForDialog(a, r)
      PROVE  AssistantInv'
  BY <1>3, ReadForChatInv, ReadForDialogInv
<1>4. ASSUME NEW a \in Asks,
             \/ Question(a) \/ Send(a) \/ Receive(a) \/ ReadDialog(a) \/ Reply(a)
             \/ Record(a) \/ Answer(a) \/ Abandon(a)
      PROVE  AssistantInv'
  BY <1>4, QuestionInv, SendInv, ReceiveInv, ReadDialogInv, ReplyInv, RecordInv, AnswerInv,
     AbandonsInv
<1>5. CASE LoseConnection
  BY <1>5, LoseConnectionInv
<1>6. CASE UNCHANGED vars
  <2>1. /\ callback' \in [Asks -> Replies \cup {None}] /\ open' \subseteq asked
        /\ seen' \in [Asks -> SUBSET MessageIds]
        /\ \A b \in Asks : \A m \in seen'[b] :
            m \in seen[b] \/ (message[m] # None /\ message[m].side \in {"client", "manager"})
    BY <1>6 DEF AssistantInv, TypeOK, vars, agentVars
  <2> QED
    BY <1>6, <2>1, BrokerInv DEF vars, agentVars
<1> QED
  BY <1>1, <1>2, <1>3, <1>4, <1>5, <1>6 DEF Next

LEMMA AssistantInvHolds == Spec => []AssistantInv
BY AssistantInitInv, AssistantStepInv, PTL DEF Spec
-----------------------------------------------------------------------------
(* Requests, replies, records and what the agent was given keep their      *)
(* types, and no callback queue is open for a request never published.     *)
THEOREM AssistantTyped == Spec => []TypeOK
<1>1. AssistantInv => TypeOK
  BY DEF AssistantInv
<1> QED
  BY <1>1, AssistantInvHolds, PTL

(* What module Chat promises of takes, messages and rejections holds while *)
(* the assistant writes to the same sessions.                              *)
THEOREM ChatStaysSound == Spec => [](AssignmentStands /\ OnlyTheAssignedManagerActs)
<1>1. AssistantInv => AssignmentStands /\ OnlyTheAssignedManagerActs
  BY InvariantMeans DEF AssistantInv
<1> QED
  BY <1>1, AssistantInvHolds, PTL

(* Each message of the assistant in a session states or answers a request  *)
(* that the session's own client made there, and an answer is stored only  *)
(* by a request that has been told so, with any number of other requests,  *)
(* of clients and of staff, in the same session at the same time.          *)
THEOREM StaffAssistancePrivate == Spec => []StaffAssistanceStaysPrivate
<1>1. ASSUME AssistantInv PROVE StaffAssistanceStaysPrivate
  <2>1. ASSUME NEW m \in Messages, about[m] # None
        PROVE  LET a == about[m] IN
               /\ ask[a].req.session = message[m].session
               /\ ask[a].req.actor = session[message[m].session].user
               /\ Role[ask[a].req.actor] = "user"
               /\ message[m].side = "ai" => ask[a].told = "ok"
    <3>1. Belongs(message[m], ask[about[m]])
      BY <1>1, <2>1 DEF AssistantInv, Messages
    <3> QED
      BY <3>1 DEF Belongs, ByClient, Admissible
  <2> QED
    BY <2>1 DEF StaffAssistanceStaysPrivate
<1> QED
  BY <1>1, AssistantInvHolds, PTL

(* Whoever the agent works for may act by what the tables say now, however *)
(* many statements ago his right was read; and it is given of a dialog     *)
(* nothing that an assistant wrote.                                        *)
THEOREM AgentServesEntitled == Spec => []AgentServesTheEntitled
<1>1. ASSUME AssistantInv PROVE AgentServesTheEntitled
  <2>1. ASSUME NEW a \in asked PROVE a \in Asks /\ Admissible(ask[a].req)
    BY <1>1, <2>1 DEF AssistantInv, TypeOK, Published
  <2>2. ASSUME NEW a \in asked, NEW m \in seen[a], about[m] # None
        PROVE  message[m].author # None
    <3>1. /\ m \in MessageIds /\ message[m].side \in {"client", "manager"}
          /\ about[m] \in Asks
      BY <1>1, <2>1, <2>2 DEF AssistantInv, TypeOK
    <3>2. Belongs(message[m], ask[about[m]]) /\ InFlight(about[m], ask[about[m]])
      BY <1>1, <2>2, <3>1 DEF AssistantInv
    <3>3. ask[about[m]].req \in AskRequests /\ message[m].author = ask[about[m]].req.actor
      BY <3>1, <3>2 DEF Belongs, InFlight
    <3> QED
      BY <3>3, AskRequestKinds, NoneIsNoAsk
  <2> QED
    BY <2>1, <2>2 DEF AgentServesTheEntitled, Admissible
<1> QED
  BY <1>1, AssistantInvHolds, PTL

(* The audit log has one entry per request at most, of success only for a  *)
(* request that the agent answered, of failure only for one that did not   *)
(* get its answer and left none in a session, whatever the broker lost.    *)
THEOREM RecordsTruthful == Spec => []RecordsAreTruthful
<1>1. ASSUME AssistantInv PROVE RecordsAreTruthful
  <2>1. \A e \in record : Recorded(e, ask[e.ask]) /\ \A f \in record : f.ask = e.ask => f = e
    BY <1>1 DEF AssistantInv
  <2>2. ASSUME NEW e \in record, e.status = "failed", NEW m \in Messages, about[m] = e.ask
        PROVE  message[m].side # "ai"
    <3>1. e.ask \in Asks /\ None \notin Asks
      BY <1>1, NoneIsNoAsk DEF AssistantInv, TypeOK
    <3>2. Belongs(message[m], ask[e.ask])
      BY <1>1, <2>2, <3>1 DEF AssistantInv, Messages
    <3> QED
      BY <2>1, <2>2, <3>2 DEF Belongs, Recorded
  <2>3. \A a \in Asks : ask[a].told = "ok" => a \in asked
    BY <1>1 DEF AssistantInv, InFlight
  <2> QED
    BY <2>1, <2>2, <2>3 DEF RecordsAreTruthful, Recorded
<1> QED
  BY <1>1, AssistantInvHolds, PTL
=============================================================================
