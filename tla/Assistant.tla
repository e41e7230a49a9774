----------------------------- MODULE Assistant ------------------------------
(***************************************************************************)
(* The AI assistant as the sites offer it: a request in a chat session     *)
(* (handler/ai.go) or about the dialog of a deal (handler/dialog_ai.go),   *)
(* sent to the agent over the RPC of service/ai_agent.go and put on record *)
(* in ai_audit_log.  A client's question and its answer join the session;  *)
(* staff are assisted outside of it.  Chat goes on meanwhile, the broker   *)
(* may fail, the agent may answer late, twice or never, and a request may  *)
(* be cut short between two statements.                                    *)
(***************************************************************************)
EXTENDS Chat

CONSTANTS Asks, AskRequests,   \* AI requests, and what they may ask for
          Deals, DealRows        \* deals, and what their rows may hold

(* "sound": the body passes validation.                                    *)
AskRequest ==
    [op : {"chat"}, actor : Users, session : SessionIds, sound : BOOLEAN]
    \cup [op : {"analyze", "reply"}, actor : Staff, deal : Deals, sound : BOOLEAN]

ASSUME AskAssumption ==
    /\ AskRequests \subseteq AskRequest
    /\ None \notin AskRequest \cup Asks \cup Deals

VARIABLES
    dealt,       \* dealt[d]: manager and session of a deal, or None
    ask,         \* ask[a]: where AI request a stands
    asked,       \* requests that have reached the agent
    open,        \* requests whose callback queue exists
    callback,    \* callback[a]: the first reply in it, or None
    record,      \* ai_audit_log
    seen,        \* seen[a]: messages the agent was given of a dialog
    about        \* about[m]: the request that message m states or answers

agentVars == <<asked, open, callback>>
vars == <<chatVars, dealt, ask, agentVars, record, seen, about>>

DealRow == [employee : Staff, session : SessionIds \cup {None}]

ASSUME DealtAssumption == DealRows \subseteq DealRow /\ None \notin DealRow

(* What the agent may reply, "blank" being an answer without a text.       *)
Replies == {"answer", "blank", "forbidden", "failed"}
Outcomes == Replies \cup {"timeout", "unavailable", "broken"}
AskSteps == {"idle", "question", "send", "wait", "record", "answer", "done"}
AskResults == {"ok", "bad_request", "not_found", "forbidden", "unavailable", "timeout",
               "error", "lost"}

Ask == [at : AskSteps, req : AskRequests \cup {None}, outcome : Outcomes \cup {None},
        told : AskResults]

Succeeded(outcome) == outcome \in {"answer", "blank"}

Init ==
    /\ ChatInit
    /\ dealt = [d \in Deals |-> None]
    /\ ask = [a \in Asks |-> [at |-> "idle", req |-> None, outcome |-> None, told |-> "lost"]]
    /\ asked = {} /\ open = {} /\ record = {}
    /\ callback = [a \in Asks |-> None]
    /\ seen = [a \in Asks |-> {}]
    /\ about = [m \in MessageIds |-> None]
-----------------------------------------------------------------------------
(* A deal gets its manager and its session once (module Deals).            *)
OpenDeal(d) ==
    /\ dealt[d] = None
    /\ \E row \in DealRows :
         /\ row.session \in Sessions \cup {None}
         /\ dealt' = [dealt EXCEPT ![d] = row]
    /\ UNCHANGED <<chatVars, ask, agentVars, record, seen, about>>

Go(a, step) == ask' = [ask EXCEPT ![a].at = step]

End(a, result) ==
    ask' = [ask EXCEPT ![a] = [@ EXCEPT !.at = "done", !.outcome = None, !.told = result]]

Answers(a, r, step, result) ==
    ask' = [ask EXCEPT ![a] = [at |-> step, req |-> r, outcome |-> None, told |-> result]]

(* The guard of Chat, which lets the client of a session ask: the site for *)
(* clients routes its requests here, against what the README and the API   *)
(* documentation say.  The mutant asks of managers what reading asks.      *)
MayAskWhereRead(u, row) == CanRead(u, row)
MayAsk(u, row) == CanRead(u, row) /\ (Role[u] = "manager" => CanManage(u, row))

(* Chat: only a client's question goes into the session.                   *)
ReadForChat(a, r) ==
    LET row == session[r.session] IN
    /\ ask[a].at = "idle" /\ r.op = "chat"
    /\ \/ ~r.sound /\ Answers(a, r, "done", "bad_request")
       \/ r.sound /\ row = None /\ Answers(a, r, "done", "not_found")
       \/ r.sound /\ row # None /\ ~MayAsk(r.actor, row) /\ Answers(a, r, "done", "forbidden")
       \/ /\ r.sound /\ row # None /\ MayAsk(r.actor, row)
          /\ Answers(a, r, IF Role[r.actor] = "user" THEN "question" ELSE "send", "lost")
    /\ UNCHANGED <<chatVars, dealt, agentVars, record, seen, about>>

(* canUseDeal, for Analyze and ReplyAssist.                                *)
MayUseDeal(u, d) ==
    dealt[d] # None /\ (Role[u] = "supervisor" \/ dealt[d].employee = u)

ReadForDialog(a, r) ==
    /\ ask[a].at = "idle" /\ r.op \in {"analyze", "reply"}
    /\ \/ ~r.sound /\ Answers(a, r, "done", "bad_request")
       \/ r.sound /\ ~MayUseDeal(r.actor, r.deal) /\ Answers(a, r, "done", "forbidden")
       \/ r.sound /\ MayUseDeal(r.actor, r.deal) /\ Answers(a, r, "send", "lost")
    /\ UNCHANGED <<chatVars, dealt, agentVars, record, seen, about>>

(* A message of request a in its session; an error is ignored.             *)
Says(a, author, side) ==
    \/ /\ SendsMessage(ask[a].req.session, author, side)
       /\ about' = [m \in MessageIds |-> IF message'[m] # message[m] THEN a ELSE about[m]]
    \/ Faults /\ UNCHANGED <<message, about>>

Question(a) ==
    /\ ask[a].at = "question"
    /\ Says(a, ask[a].req.actor, "client")
    /\ Go(a, "send")
    /\ UNCHANGED <<session, rejections, chat, dealt, agentVars, record, seen>>
-----------------------------------------------------------------------------
Fails(a, outcome) ==
    ask' = [ask EXCEPT ![a] = [@ EXCEPT !.at = "record", !.outcome = outcome]]

(* sendRPC up to the publication: the connection that all requests share   *)
(* is dialled if it is down, a callback queue declared, the request        *)
(* published; the broker may refuse each.                                  *)
Send(a) ==
    /\ ask[a].at = "send"
    /\ \/ \E outcome \in {"unavailable", "broken"} : Fails(a, outcome) /\ UNCHANGED agentVars
       \/ /\ Go(a, "wait")
          /\ asked' = asked \cup {a} /\ open' = open \cup {a}
          /\ UNCHANGED callback
    /\ UNCHANGED <<chatVars, dealt, record, seen, about>>

(* The rest of sendRPC: the first reply, the timer, a reply that does not  *)
(* parse or match, or a queue that went with its connection.  The queue is *)
(* deleted on the way out.                                                 *)
Receive(a) ==
    /\ ask[a].at = "wait"
    /\ \/ callback[a] # None /\ Fails(a, callback[a])
       \/ Fails(a, "timeout")
       \/ (callback[a] # None \/ a \notin open) /\ Fails(a, "broken")
    /\ open' = open \ {a} /\ callback' = [callback EXCEPT ![a] = None]
    /\ UNCHANGED <<chatVars, dealt, asked, record, seen, about>>

(* The connection and with it every callback queue is gone; a reply that   *)
(* has arrived may still be read.                                          *)
LoseConnection ==
    /\ open # {} /\ open' = {}
    /\ \E kept \in SUBSET open :
          callback' = [a \in Asks |-> IF a \in kept THEN callback[a] ELSE None]
    /\ UNCHANGED <<chatVars, dealt, ask, asked, record, seen, about>>

(* GetDealMessages, which the agent calls for a dialog: what the client    *)
(* and the staff wrote, up to a limit above |MessageIds|.  The mutant      *)
(* passes the answers of the assistant on as well.                         *)
DialogWithAnswers(s) == {m \in Messages : message[m].session = s}
Dialog(s) == {m \in DialogWithAnswers(s) : message[m].side \in {"client", "manager"}}

ReadDialog(a) ==
    /\ a \in asked /\ ask[a].req.op # "chat" /\ seen[a] = {}
    /\ seen' = [seen EXCEPT ![a] = Dialog(dealt[ask[a].req.deal].session)]
    /\ UNCHANGED <<chatVars, dealt, ask, agentVars, record, about>>

(* The agent answers a request; a reply without a queue is dropped.        *)
Reply(a) ==
    /\ a \in asked \cap open /\ callback[a] = None
    /\ \E reply \in Replies : callback' = [callback EXCEPT ![a] = reply]
    /\ UNCHANGED <<chatVars, dealt, ask, asked, open, record, seen, about>>
-----------------------------------------------------------------------------
Told(op, outcome) ==
    CASE Succeeded(outcome) -> "ok"
      [] outcome \in {"forbidden", "timeout", "unavailable"} -> outcome
      [] outcome = "failed" -> "error"
      [] outcome = "broken" -> IF op = "chat" THEN "error" ELSE "unavailable"

(* The status on record.  The mutant counts only the agent's refusals as   *)
(* failures.                                                               *)
StatusOfReply(outcome) == IF outcome \in {"forbidden", "failed"} THEN "failed" ELSE "success"
Status(outcome) == IF Succeeded(outcome) THEN "success" ELSE "failed"

(* Whose answers join the session.  The mutant stores those of staff too.  *)
SharedWithAll(a) == ask[a].req.op = "chat" /\ ask[a].outcome = "answer"
Shared(a) == /\ ask[a].req.op = "chat" /\ ask[a].outcome = "answer"
             /\ Role[ask[a].req.actor] = "user"

(* recordAIAction, whose error is ignored.                                 *)
Record(a) ==
    /\ ask[a].at = "record"
    /\ \/ record' = record \cup {[ask |-> a, status |-> Status(ask[a].outcome)]}
       \/ Faults /\ UNCHANGED record
    /\ IF Shared(a) THEN Go(a, "answer") ELSE End(a, Told(ask[a].req.op, ask[a].outcome))
    /\ UNCHANGED <<chatVars, dealt, agentVars, seen, about>>

Answer(a) ==
    /\ ask[a].at = "answer"
    /\ Says(a, None, "ai")
    /\ End(a, "ok")
    /\ UNCHANGED <<session, rejections, chat, dealt, agentVars, record, seen>>

(* The asker hangs up or the server stops; nothing more is stored.         *)
Abandon(a) ==
    /\ ask[a].at \notin {"idle", "done"}
    /\ End(a, "lost")
    /\ open' = open \ {a} /\ callback' = [callback EXCEPT ![a] = None]
    /\ UNCHANGED <<chatVars, dealt, asked, record, seen, about>>

Next ==
    \/ ChatNext /\ UNCHANGED <<dealt, ask, agentVars, record, seen, about>>
    \/ \E d \in Deals : OpenDeal(d)
    \/ \E a \in Asks, r \in AskRequests : ReadForChat(a, r) \/ ReadForDialog(a, r)
    \/ \E a \in Asks : \/ Question(a) \/ Send(a) \/ Receive(a) \/ ReadDialog(a) \/ Reply(a)
                       \/ Record(a) \/ Answer(a) \/ Abandon(a)
    \/ LoseConnection

Spec == Init /\ [][Next]_vars
-----------------------------------------------------------------------------
(* Type invariant: chat, deals, AI requests, the broker and the records.   *)
TypeOK ==
    /\ ChatTypeOK
    /\ dealt \in [Deals -> DealRow \cup {None}]
    /\ ask \in [Asks -> Ask]
    /\ asked \subseteq Asks /\ open \subseteq asked
    /\ callback \in [Asks -> Replies \cup {None}]
    /\ record \subseteq [ask : Asks, status : {"success", "failed"}]
    /\ seen \in [Asks -> SUBSET MessageIds]
    /\ about \in [MessageIds -> Asks \cup {None}]

(***************************************************************************)
(* handler/ai.go:92, "Only a client's own AI conversation belongs in the   *)
(* client-visible chat.  Staff assistance must never leak into that shared *)
(* history."  Whoever else asks in the session at the same time, and       *)
(* however late the agent answers, each message of the assistant there     *)
(* answers a request its own client made in it, and follows, if that was   *)
(* stored, the client's question.                                          *)
(***************************************************************************)
StaffAssistanceStaysPrivate ==
    \A m \in Messages : about[m] # None =>
        LET a == about[m] IN
        /\ ask[a].req.session = message[m].session
        /\ ask[a].req.actor = session[message[m].session].user
        /\ Role[ask[a].req.actor] = "user"
        /\ message[m].side = "ai" => ask[a].told = "ok"

(***************************************************************************)
(* The agent works only for those whom the code entitles, by what the      *)
(* tables say now: a client in his session, a manager in a session that is *)
(* his or about no apartment, and for a deal its manager; and of the       *)
(* dialog of a deal it is given what people wrote, nothing an assistant    *)
(* did.  Rights are read statements before the request is sent, while      *)
(* sessions are being taken.  That a client is entitled at all is the code *)
(* against its documentation: see OnlyStaffAskTheAgent.                    *)
(***************************************************************************)
AgentServesTheEntitled ==
    \A a \in asked :
        LET r == ask[a].req IN
        /\ r.op = "chat" =>
              LET row == session[r.session] IN
              /\ Role[r.actor] = "user" => row.user = r.actor
              /\ Role[r.actor] = "manager" => row.apartment = None \/ row.employee = r.actor
        /\ r.op # "chat" => /\ Role[r.actor] = "manager" => dealt[r.deal].employee = r.actor
                            /\ \A m \in seen[a] : about[m] # None => message[m].author # None

(***************************************************************************)
(* README.md:34 of the backend, "no direct access of the client to the     *)
(* AI", and :245, "the endpoint is available to staff only"; the test of   *)
(* the API documentation, "user API must not expose AI chat": the agent is *)
(* asked by staff alone.  It does not hold of the code, whose server for   *)
(* clients routes POST /api/ai/chat to the handler (user_server/main.go).  *)
(***************************************************************************)
OnlyStaffAskTheAgent == \A a \in asked : ask[a].req.actor \in Staff

(***************************************************************************)
(* The audit log tells the truth.  A request has one entry at most, and    *)
(* one only if it was admitted; an entry of success is that of a request   *)
(* which got its answer, a failure that of one which did not, and no       *)
(* request that failed left an answer in a session.                        *)
(***************************************************************************)
RecordsAreTruthful ==
    /\ \A e \in record :
         /\ \A f \in record : f.ask = e.ask => f = e
         /\ e.status = "success" => e.ask \in asked /\ ask[e.ask].told \in {"ok", "lost"}
         /\ e.status = "failed" => /\ ask[e.ask].told # "ok"
                                   /\ \A m \in Messages :
                                        about[m] = e.ask => message[m].side # "ai"
    /\ \A a \in Asks : ask[a].told = "ok" => a \in asked
=============================================================================
