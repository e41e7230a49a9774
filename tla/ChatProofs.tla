----------------------------- MODULE ChatProofs -----------------------------
(***************************************************************************)
(* Proofs about Chat, for every set of users, sessions and requests.       *)
(*                                                                         *)
(* A session only evolves: its client and apartment never change, and an   *)
(* employee, once assigned, stays.  So what a request established about    *)
(* its session when it read it still holds at its last statement.          *)
(***************************************************************************)
EXTENDS Chat, TLAPS

(* A manager who acts in a session about an apartment is assigned to it.   *)
Entitled(u, s) ==
    Role[u] = "manager" /\ session[s].apartment # None => session[s].employee = u

(* What a request that has reached a given statement has established.      *)
CallOK(c) ==
    LET k == chat[c] IN
    /\ k.at # "idle" => k.req \in ChatRequests
    /\ k.at \notin {"idle", "create", "done"} =>
          k.session \in SessionIds /\ session[k.session] # None
    /\ k.at \in {"create", "greet"} => k.req.op = "open"
    /\ k.at = "assign" => k.req.op = "take" /\ session[k.session].apartment # None
    /\ k.at = "close" => k.req.op = "close"
    /\ k.at \in {"reject", "close_rejected"} => k.req.op = "reject"
    /\ k.at = "post" => k.req.op = "send"
    /\ k.at = "mark" => k.req.op = "read"
    /\ k.at \in {"reject", "post"} => Entitled(k.req.actor, k.session)

GeneralUnassigned ==
    \A s \in SessionIds : session[s] # None =>
        (session[s].apartment = None => session[s].employee = None)

AssignedStay ==
    \A c \in ChatCalls, s \in SessionIds : Took(c, s) =>
        session[s] # None /\ session[s].employee = chat[c].req.actor

MessagesOK ==
    \A m \in MessageIds : message[m] # None /\ message[m].side = "manager" =>
        /\ message[m].author \in Users
        /\ session[message[m].session] # None
        /\ Entitled(message[m].author, message[m].session)

RejectionsOK ==
    \A r \in rejections : session[r.session] # None /\ Entitled(r.employee, r.session)

ChatInv ==
    /\ ChatTypeOK
    /\ \A c \in ChatCalls : CallOK(c)
    /\ GeneralUnassigned /\ AssignedStay
    /\ MessagesOK /\ RejectionsOK

(* How a step may change a session. *)
Evolves(s) ==
    session[s] # None =>
        /\ session'[s] # None
        /\ session'[s].user = session[s].user
        /\ session'[s].apartment = session[s].apartment
        /\ session[s].employee # None => session'[s].employee = session[s].employee

SessionsEvolve == \A s \in SessionIds : Evolves(s)
-----------------------------------------------------------------------------
LEMMA NoneIsNoRow ==
    /\ None \notin SessionRow /\ None \notin MessageRow /\ None \notin ChatRequests
    /\ None \notin Users /\ None \notin SessionIds
BY ChatAssumption, ChatNoneAssumption

LEMMA RequestKinds ==
    ASSUME NEW r \in ChatRequests
    PROVE  /\ r.op \in {"open", "take", "close", "reject", "send", "read", "hide"}
           /\ r.op = "open" => r.actor \in Users \cup {None} /\ r.greet \in BOOLEAN
                               /\ r.apartment \in Apartments \cup {None}
           /\ r.op # "open" => r.actor \in Users /\ r.session \in SessionIds
           /\ r.op \in {"take", "close", "reject"} => r.actor \in Staff
BY ChatAssumption DEF ChatRequest, Staff

LEMMA InitInv == ChatInit => ChatInv
<1> SUFFICES ASSUME ChatInit PROVE ChatInv
  OBVIOUS
<1>1. ChatTypeOK
  BY DEF ChatInit, ChatTypeOK, ChatCall, ChatSteps, ChatResults
<1>2. \A c \in ChatCalls : CallOK(c)
  BY DEF ChatInit, CallOK
<1>3. GeneralUnassigned /\ AssignedStay /\ MessagesOK /\ RejectionsOK
  BY DEF ChatInit, GeneralUnassigned, AssignedStay, Took, MessagesOK, RejectionsOK
<1> QED
  BY <1>1, <1>2, <1>3 DEF ChatInv

(* How a step moves one request. *)
LEMMA EnterTyped ==
    ASSUME ChatTypeOK, NEW c \in ChatCalls, NEW r \in ChatRequests,
           NEW step \in ChatSteps, NEW s \in SessionIds \cup {None}, Enter(c, r, step, s)
    PROVE  /\ chat' \in [ChatCalls -> ChatCall]
           /\ chat'[c] = [at |-> step, req |-> r, session |-> s, told |-> "lost"]
           /\ \A d \in ChatCalls \ {c} : chat'[d] = chat[d]
BY DEF Enter, ChatTypeOK, ChatCall, ChatResults

LEMMA RefuseTyped ==
    ASSUME ChatTypeOK, NEW c \in ChatCalls, NEW r \in ChatRequests,
           NEW result \in ChatResults, Refuse(c, r, result)
    PROVE  /\ chat' \in [ChatCalls -> ChatCall]
           /\ chat'[c] = [at |-> "done", req |-> r, session |-> None, told |-> result]
           /\ \A d \in ChatCalls \ {c} : chat'[d] = chat[d]
BY DEF Refuse, ChatTypeOK, ChatCall, ChatSteps

LEMMA TellTyped ==
    ASSUME ChatTypeOK, NEW c \in ChatCalls, NEW result \in ChatResults, Tell(c, result)
    PROVE  /\ chat' \in [ChatCalls -> ChatCall]
           /\ chat'[c] = [chat[c] EXCEPT !.at = "done", !.told = result]
           /\ chat'[c].at = "done" /\ chat'[c].told = result
           /\ chat'[c].req = chat[c].req /\ chat'[c].session = chat[c].session
           /\ \A d \in ChatCalls \ {c} : chat'[d] = chat[d]
BY DEF Tell, ChatTypeOK, ChatCall, ChatSteps

LEMMA ConfirmTyped ==
    ASSUME ChatTypeOK, NEW c \in ChatCalls, Confirm(c)
    PROVE  /\ chat' \in [ChatCalls -> ChatCall]
           /\ chat'[c].at = "done"
           /\ chat'[c].req = chat[c].req /\ chat'[c].session = chat[c].session
           /\ \A d \in ChatCalls \ {c} : chat'[d] = chat[d]
BY TellTyped DEF Confirm, ChatResults

(* What a request established outlives the steps of the others.            *)
LEMMA EntitledKept ==
    ASSUME NEW u \in Users, NEW s \in SessionIds, session[s] # None,
           Entitled(u, s), Evolves(s)
    PROVE  Entitled(u, s)'
BY NoneIsNoRow DEF Entitled, Evolves

LEMMA CallKept ==
    ASSUME NEW c \in ChatCalls, CallOK(c), SessionsEvolve, chat'[c] = chat[c]
    PROVE  CallOK(c)'
<1> DEFINE k == chat[c]
<1>1. k.at \in {"reject", "post"} => Entitled(k.req.actor, k.session)'
  <2> SUFFICES ASSUME k.at \in {"reject", "post"} PROVE Entitled(k.req.actor, k.session)'
    OBVIOUS
  <2>1. /\ k.req \in ChatRequests /\ k.req.op # "open"
        /\ k.session \in SessionIds /\ session[k.session] # None
        /\ Entitled(k.req.actor, k.session)
    BY DEF CallOK
  <2>2. k.req.actor \in Users
    BY <2>1, RequestKinds
  <2>3. Evolves(k.session)
    BY <2>1 DEF SessionsEvolve
  <2>4. ASSUME NEW u \in Users, NEW s \in SessionIds, session[s] # None, Entitled(u, s), Evolves(s)
        PROVE  Role[u] = "manager" /\ session'[s].apartment # None => session'[s].employee = u
    BY <2>4, EntitledKept DEF Entitled
  <2>5. Role[k.req.actor] = "manager" /\ session'[k.session].apartment # None
          => session'[k.session].employee = k.req.actor
    BY <2>1, <2>2, <2>3, <2>4
  <2> QED
    BY <2>5 DEF Entitled
<1>2. k.at \notin {"idle", "create", "done"} =>
        k.session \in SessionIds /\ session'[k.session] # None
  BY DEF CallOK, SessionsEvolve, Evolves
<1>3. k.at = "assign" => k.req.op = "take" /\ session'[k.session].apartment # None
  BY DEF CallOK, SessionsEvolve, Evolves
<1> QED
  BY <1>1, <1>2, <1>3 DEF CallOK, Entitled

LEMMA Unmoved == session' = session => SessionsEvolve
BY DEF SessionsEvolve, Evolves

LEMMA MessagesKept ==
    ASSUME ChatTypeOK, MessagesOK, SessionsEvolve,
           \A m \in MessageIds : message'[m] # None =>
               /\ message[m] # None
               /\ message'[m].session = message[m].session
               /\ message'[m].author = message[m].author
               /\ message'[m].side = message[m].side
    PROVE  MessagesOK'
<1> SUFFICES ASSUME NEW m \in MessageIds, message'[m] # None, message'[m].side = "manager"
             PROVE  /\ message'[m].author \in Users
                    /\ session'[message'[m].session] # None
                    /\ Entitled(message[m].author, message[m].session)'
  BY DEF MessagesOK
<1> DEFINE u == message[m].author
           s == message[m].session
<1>1. u = message'[m].author /\ s = message'[m].session
  OBVIOUS
<1>2. u \in Users /\ session[s] # None /\ Entitled(u, s)
  BY DEF MessagesOK
<1>3. s \in SessionIds
  BY DEF ChatTypeOK, MessageRow
<1>4. Evolves(s)
  BY <1>3 DEF SessionsEvolve
<1>5. ASSUME NEW v \in Users, NEW t \in SessionIds, session[t] # None, Entitled(v, t), Evolves(t)
      PROVE  session'[t] # None
             /\ (Role[v] = "manager" /\ session'[t].apartment # None => session'[t].employee = v)
  BY <1>5, EntitledKept DEF Entitled, Evolves
<1>6. session'[s] # None
      /\ (Role[u] = "manager" /\ session'[s].apartment # None => session'[s].employee = u)
  BY <1>2, <1>3, <1>4, <1>5
<1> QED
  BY <1>1, <1>2, <1>6 DEF Entitled

LEMMA RejectionsKept ==
    ASSUME ChatTypeOK, RejectionsOK, SessionsEvolve, UNCHANGED rejections
    PROVE  RejectionsOK'
<1> SUFFICES ASSUME NEW r \in rejections
             PROVE  session'[r.session] # None /\ Entitled(r.employee, r.session)'
  BY DEF RejectionsOK
<1>1. r.session \in SessionIds /\ r.employee \in Users
  BY DEF ChatTypeOK, Rejection
<1>2. session[r.session] # None /\ Entitled(r.employee, r.session) /\ Evolves(r.session)
  BY <1>1 DEF RejectionsOK, SessionsEvolve
<1>3. ASSUME NEW v \in Users, NEW t \in SessionIds, session[t] # None, Entitled(v, t), Evolves(t)
      PROVE  session'[t] # None
             /\ (Role[v] = "manager" /\ session'[t].apartment # None => session'[t].employee = v)
  BY <1>3, EntitledKept DEF Entitled, Evolves
<1> QED
  BY <1>1, <1>2, <1>3 DEF Entitled

(* A step of one request keeps the invariant if what it changes does.      *)
LEMMA CallStepInv ==
    ASSUME ChatInv, NEW c \in ChatCalls, SessionsEvolve,
           session' \in [SessionIds -> SessionRow \cup {None}],
           message' \in [MessageIds -> MessageRow \cup {None}],
           rejections' \subseteq Rejection,
           chat' \in [ChatCalls -> ChatCall],
           \A d \in ChatCalls \ {c} : chat'[d] = chat[d],
           CallOK(c)',
           \A s \in SessionIds : Took(c, s)' =>
               session'[s] # None /\ session'[s].employee = chat'[c].req.actor,
           GeneralUnassigned', MessagesOK', RejectionsOK'
    PROVE  ChatInv'
<1>1. ChatTypeOK'
  BY DEF ChatTypeOK
<1>2. ASSUME NEW d \in ChatCalls PROVE CallOK(d)'
  BY <1>2, CallKept DEF ChatInv
<1>3. ASSUME NEW d \in ChatCalls \ {c}, NEW s \in SessionIds, Took(d, s)'
      PROVE  session'[s] # None /\ session'[s].employee = chat'[d].req.actor
  <2>1. Took(d, s) /\ chat'[d] = chat[d]
    BY <1>3 DEF Took
  <2>2. session[s] # None /\ session[s].employee = chat[d].req.actor
    BY <2>1 DEF ChatInv, AssignedStay
  <2>3. chat[d].req \in ChatRequests /\ chat[d].req.op = "take"
    BY <2>1 DEF Took, ChatInv, CallOK
  <2>4. chat[d].req.actor # None
    BY <2>3, RequestKinds, NoneIsNoRow
  <2>5. Evolves(s)
    BY DEF SessionsEvolve
  <2> QED
    BY <2>1, <2>2, <2>4, <2>5 DEF Evolves
<1>4. AssignedStay'
  BY <1>3 DEF AssignedStay
<1> QED
  BY <1>1, <1>2, <1>4 DEF ChatInv

(* The same for a step that writes no table.                               *)
LEMMA ReadStepInv ==
    ASSUME ChatInv, NEW c \in ChatCalls, UNCHANGED chatTables,
           chat' \in [ChatCalls -> ChatCall],
           \A d \in ChatCalls \ {c} : chat'[d] = chat[d],
           CallOK(c)',
           \A s \in SessionIds : ~Took(c, s)'
    PROVE  ChatInv'
<1>1. SessionsEvolve
  BY Unmoved DEF chatTables
<1>2. MessagesOK' /\ RejectionsOK' /\ GeneralUnassigned'
  BY <1>1, MessagesKept, RejectionsKept
     DEF chatTables, ChatInv, MessagesOK, GeneralUnassigned
<1>3. /\ session' \in [SessionIds -> SessionRow \cup {None}]
      /\ message' \in [MessageIds -> MessageRow \cup {None}]
      /\ rejections' \subseteq Rejection
  BY DEF chatTables, ChatInv, ChatTypeOK
<1> QED
  BY <1>1, <1>2, <1>3, CallStepInv
-----------------------------------------------------------------------------
(* A request that has been answered has nothing left to establish.         *)
LEMMA DoneOK ==
    ASSUME NEW c \in ChatCalls, (chat'[c]).at = "done", (chat'[c]).req \in ChatRequests
    PROVE  CallOK(c)'
BY DEF CallOK

LEMMA RefuseInv ==
    ASSUME ChatInv, NEW c \in ChatCalls, NEW r \in ChatRequests, NEW result \in ChatResults,
           Refuse(c, r, result), UNCHANGED chatTables
    PROVE  ChatInv'
<1>1. /\ chat' \in [ChatCalls -> ChatCall]
      /\ chat'[c] = [at |-> "done", req |-> r, session |-> None, told |-> result]
      /\ \A d \in ChatCalls \ {c} : chat'[d] = chat[d]
  BY RefuseTyped DEF ChatInv
<1>2. CallOK(c)'
  BY <1>1, DoneOK
<1>3. \A s \in SessionIds : ~Took(c, s)'
  BY <1>1, NoneIsNoRow DEF Took
<1> QED
  BY <1>1, <1>2, <1>3, ReadStepInv

LEMMA FindGeneralInv ==
    ASSUME ChatInv, NEW c \in ChatCalls, NEW r \in ChatRequests, FindGeneral(c, r)
    PROVE  ChatInv'
<1>1. r.op = "open" /\ UNCHANGED chatTables
  BY DEF FindGeneral, Starts
<1>2. CASE Enter(c, r, "create", None)
  <2>1. /\ chat' \in [ChatCalls -> ChatCall]
        /\ chat'[c] = [at |-> "create", req |-> r, session |-> None, told |-> "lost"]
        /\ \A d \in ChatCalls \ {c} : chat'[d] = chat[d]
    BY <1>2, EnterTyped DEF ChatInv, ChatSteps
  <2>2. CallOK(c)' /\ \A s \in SessionIds : ~Took(c, s)'
    BY <1>1, <2>1 DEF CallOK, Took
  <2> QED
    BY <1>1, <2>1, <2>2, ReadStepInv
<1>3. ASSUME NEW s \in Reusable(r.actor), Enter(c, r, "greet", s)
      PROVE  ChatInv'
  <2>1. s \in SessionIds /\ session[s] # None
    BY DEF Reusable, Sessions
  <2>2. /\ chat' \in [ChatCalls -> ChatCall]
        /\ chat'[c] = [at |-> "greet", req |-> r, session |-> s, told |-> "lost"]
        /\ \A d \in ChatCalls \ {c} : chat'[d] = chat[d]
    BY <1>3, <2>1, EnterTyped DEF ChatInv, ChatSteps
  <2>3. CallOK(c)' /\ \A t \in SessionIds : ~Took(c, t)'
    BY <1>1, <2>1, <2>2 DEF CallOK, Took, chatTables
  <2> QED
    BY <1>1, <2>2, <2>3, ReadStepInv
<1>4. ASSUME NEW s \in Reusable(r.actor),
             chat' = [chat EXCEPT ![c] = [at |-> "done", req |-> r, session |-> s, told |-> "ok"]]
      PROVE  ChatInv'
  <2>1. s \in SessionIds
    BY DEF Reusable, Sessions
  <2>2. [at |-> "done", req |-> r, session |-> s, told |-> "ok"] \in ChatCall
    BY <2>1 DEF ChatCall, ChatSteps, ChatResults
  <2>3. /\ chat' \in [ChatCalls -> ChatCall]
        /\ chat'[c] = [at |-> "done", req |-> r, session |-> s, told |-> "ok"]
        /\ \A d \in ChatCalls \ {c} : chat'[d] = chat[d]
    BY <1>4, <2>2 DEF ChatInv, ChatTypeOK
  <2>4. CallOK(c)' /\ \A t \in SessionIds : ~Took(c, t)'
    BY <1>1, <2>3, DoneOK DEF Took
  <2> QED
    BY <1>1, <2>3, <2>4, ReadStepInv
<1> QED
  BY <1>2, <1>3, <1>4 DEF FindGeneral

(* A read that authorizes the request hands the session on to the next     *)
(* statement.                                                              *)
LEMMA AuthorizedInv ==
    ASSUME ChatInv, NEW c \in ChatCalls, NEW r \in ChatRequests, UNCHANGED chatTables,
           NEW step \in {"assign", "close", "reject", "post", "mark"},
           Enter(c, r, step, r.session), r.op # "open", session[r.session] # None,
           step = "assign" => r.op = "take" /\ session[r.session].apartment # None,
           step = "close" => r.op = "close",
           step = "reject" => r.op = "reject",
           step = "post" => r.op = "send",
           step = "mark" => r.op = "read",
           step \in {"reject", "post"} => Entitled(r.actor, r.session)
    PROVE  ChatInv'
<1>1. r.session \in SessionIds
  BY RequestKinds
<1>2. /\ chat' \in [ChatCalls -> ChatCall]
      /\ chat'[c] = [at |-> step, req |-> r, session |-> r.session, told |-> "lost"]
      /\ \A d \in ChatCalls \ {c} : chat'[d] = chat[d]
  <2>1. step \in ChatSteps /\ r.session \in SessionIds \cup {None} /\ ChatTypeOK
    BY <1>1 DEF ChatInv, ChatSteps
  <2>2. ASSUME NEW s \in SessionIds \cup {None}, NEW st \in ChatSteps, Enter(c, r, st, s)
        PROVE  /\ chat' \in [ChatCalls -> ChatCall]
               /\ chat'[c] = [at |-> st, req |-> r, session |-> s, told |-> "lost"]
               /\ \A d \in ChatCalls \ {c} : chat'[d] = chat[d]
    BY <2>1, <2>2, EnterTyped
  <2> QED
    BY <2>1, <2>2
<1>3. session' = session
  BY DEF chatTables
<1>4. CallOK(c)'
  <2>1. /\ (chat'[c]).at = step /\ (chat'[c]).req = r /\ (chat'[c]).session = r.session
    BY <1>2
  <2>2. step \in {"reject", "post"} =>
          (Role[r.actor] = "manager" /\ session'[r.session].apartment # None
             => session'[r.session].employee = r.actor)
    BY <1>3 DEF Entitled
  <2> QED
    BY <1>1, <1>3, <2>1, <2>2 DEF CallOK, Entitled
<1>5. \A s \in SessionIds : ~Took(c, s)'
  BY <1>2 DEF Took
<1> QED
  BY <1>2, <1>4, <1>5, ReadStepInv

LEMMA ReadsInv ==
    ASSUME ChatInv, NEW c \in ChatCalls, NEW r \in ChatRequests,
           \/ ReadForTake(c, r) \/ ReadForClose(c, r)
           \/ ReadForSend(c, r) \/ ReadForMessages(c, r)
    PROVE  ChatInv'
<1> DEFINE row == session[r.session]
<1>1. {"not_found", "forbidden", "bad_request", "conflict"} \subseteq ChatResults
  BY DEF ChatResults
<1>2. CASE ReadForTake(c, r)
  <2>1. UNCHANGED chatTables /\ r.op = "take"
    BY <1>2 DEF ReadForTake, Starts
  <2>2. CASE \E result \in ChatResults : Refuse(c, r, result)
    BY <2>1, <2>2, RefuseInv
  <2>3. CASE row # None /\ row.apartment # None /\ Enter(c, r, "assign", r.session)
    BY <2>1, <2>3, AuthorizedInv
  <2> QED
    BY <1>1, <1>2, <2>2, <2>3 DEF ReadForTake
<1>3. CASE ReadForClose(c, r)
  <2>1. UNCHANGED chatTables /\ r.op \in {"close", "reject"}
    BY <1>3 DEF ReadForClose, Starts
  <2>2. CASE \E result \in ChatResults : Refuse(c, r, result)
    BY <2>1, <2>2, RefuseInv
  <2>3. CASE /\ row # None /\ CanManage(r.actor, row)
             /\ \/ r.op = "close" /\ Enter(c, r, "close", r.session)
                \/ r.op = "reject" /\ Enter(c, r, "reject", r.session)
    <3>1. Entitled(r.actor, r.session)
      BY <2>3 DEF CanManage, Entitled
    <3> QED
      BY <2>1, <2>3, <3>1, AuthorizedInv
  <2> QED
    BY <1>1, <1>3, <2>2, <2>3 DEF ReadForClose
<1>4. CASE ReadForSend(c, r)
  <2>1. UNCHANGED chatTables /\ r.op = "send"
    BY <1>4 DEF ReadForSend, Starts
  <2>2. CASE \E result \in ChatResults : Refuse(c, r, result)
    BY <2>1, <2>2, RefuseInv
  <2>3. CASE row # None /\ MaySend(r.actor, row) /\ Enter(c, r, "post", r.session)
    <3>1. Entitled(r.actor, r.session)
      BY <2>3 DEF MaySend, CanManage, Entitled
    <3> QED
      BY <2>1, <2>3, <3>1, AuthorizedInv
  <2> QED
    BY <1>1, <1>4, <2>2, <2>3 DEF ReadForSend
<1>5. CASE ReadForMessages(c, r)
  <2>1. UNCHANGED chatTables /\ r.op = "read"
    BY <1>5 DEF ReadForMessages, Starts
  <2>2. CASE \E result \in ChatResults : Refuse(c, r, result)
    BY <2>1, <2>2, RefuseInv
  <2>3. CASE row # None /\ Enter(c, r, "mark", r.session)
    BY <2>1, <2>3, AuthorizedInv
  <2> QED
    BY <1>1, <1>5, <2>2, <2>3 DEF ReadForMessages
<1> QED
  BY <1>2, <1>3, <1>4, <1>5
-----------------------------------------------------------------------------
LEMMA AbandonInv ==
    ASSUME ChatInv, NEW c \in ChatCalls, ChatAbandon(c)
    PROVE  ChatInv'
<1>1. /\ chat' \in [ChatCalls -> ChatCall]
      /\ (chat'[c]).at = "done" /\ (chat'[c]).told = "lost"
      /\ (chat'[c]).req = chat[c].req
      /\ \A d \in ChatCalls \ {c} : chat'[d] = chat[d]
  BY TellTyped DEF ChatAbandon, ChatInv, ChatResults
<1>2. chat[c].req \in ChatRequests
  BY DEF ChatAbandon, ChatInv, CallOK
<1>3. CallOK(c)'
  BY <1>1, <1>2, DoneOK
<1>4. \A s \in SessionIds : ~Took(c, s)'
  BY <1>1 DEF Took
<1> QED
  BY <1>1, <1>3, <1>4, ReadStepInv DEF ChatAbandon

(* A new session replaces none.                                            *)
LEMMA CreateInv ==
    ASSUME ChatInv, NEW c \in ChatCalls, Create(c)
    PROVE  ChatInv'
<1> DEFINE r == chat[c].req
<1>1. r \in ChatRequests /\ r.op = "open"
  BY DEF Create, ChatInv, CallOK
<1>2. PICK s \in SessionIds \ Sessions, result \in {"ok", "lost"} :
        /\ session' = [session EXCEPT ![s] =
             [user |-> r.actor, employee |-> None, apartment |-> r.apartment,
              status |-> "open", hidden |-> FALSE]]
        /\ chat' = [chat EXCEPT ![c] =
             [at |-> IF r.greet /\ result = "ok" THEN "greet" ELSE "done",
              req |-> r, session |-> s, told |-> IF r.greet THEN "lost" ELSE result]]
  BY DEF Create
<1>3. session[s] = None
  BY DEF Sessions
<1>4. [user |-> r.actor, employee |-> None, apartment |-> r.apartment,
       status |-> "open", hidden |-> FALSE] \in SessionRow
  BY <1>1, RequestKinds DEF SessionRow, SessionStatuses
<1>5. session' \in [SessionIds -> SessionRow \cup {None}] /\ SessionsEvolve
  BY <1>2, <1>3, <1>4 DEF ChatInv, ChatTypeOK, SessionsEvolve, Evolves
<1>6. GeneralUnassigned'
  BY <1>2, <1>4 DEF GeneralUnassigned, ChatInv, ChatTypeOK
<1>7. UNCHANGED <<message, rejections>> /\ ChatTypeOK /\ MessagesOK /\ RejectionsOK
  BY DEF Create, ChatInv
<1>8. MessagesOK' /\ RejectionsOK'
  BY <1>5, <1>7, MessagesKept, RejectionsKept DEF MessagesOK
<1>9. /\ chat' \in [ChatCalls -> ChatCall]
      /\ (chat'[c]).at \in {"greet", "done"} /\ (chat'[c]).req = r /\ (chat'[c]).session = s
      /\ \A d \in ChatCalls \ {c} : chat'[d] = chat[d]
  <2> DEFINE step == IF r.greet /\ result = "ok" THEN "greet" ELSE "done"
             told == IF r.greet THEN "lost" ELSE result
  <2>1. step \in ChatSteps /\ step \in {"greet", "done"}
    BY DEF ChatSteps
  <2>2. told \in ChatResults
    BY DEF ChatResults
  <2> HIDE DEF step, told
  <2>3. chat[c] \in ChatCall /\ chat \in [ChatCalls -> ChatCall]
    BY <1>7 DEF ChatTypeOK
  <2>4. [at |-> step, req |-> r, session |-> s, told |-> told] \in ChatCall
    BY <1>1, <2>1, <2>2 DEF ChatCall
  <2>5. chat' = [chat EXCEPT ![c] = [at |-> step, req |-> r, session |-> s, told |-> told]]
    BY <1>2 DEF step, told
  <2> QED
    BY <2>1, <2>3, <2>4, <2>5
<1>10. CallOK(c)' /\ \A t \in SessionIds : ~Took(c, t)'
  <2>1. s \in SessionIds /\ session'[s] # None
    BY <1>2, <1>4, NoneIsNoRow DEF ChatInv, ChatTypeOK
  <2> QED
    BY <1>1, <1>9, <2>1 DEF CallOK, Took
<1>11. message' \in [MessageIds -> MessageRow \cup {None}] /\ rejections' \subseteq Rejection
  BY <1>7 DEF ChatTypeOK
<1> QED
  BY <1>5, <1>6, <1>8, <1>9, <1>10, <1>11, CallStepInv

(* A message from a manager comes from one who is entitled to write.       *)
LEMMA SendsMessageOK ==
    ASSUME ChatInv, NEW s \in SessionIds, session[s] # None, NEW u \in Users \cup {None},
           NEW side \in {"client", "manager", "system", "ai"}, SendsMessage(s, u, side),
           side = "manager" => u \in Users /\ Entitled(u, s),
           UNCHANGED session
    PROVE  message' \in [MessageIds -> MessageRow \cup {None}] /\ MessagesOK'
<1>1. PICK m \in MessageIds : message' = [message EXCEPT ![m] =
          [session |-> s, author |-> u, side |-> side, read |-> FALSE]]
  BY DEF SendsMessage
<1>2. [session |-> s, author |-> u, side |-> side, read |-> FALSE] \in MessageRow
  BY DEF MessageRow
<1>3. message' \in [MessageIds -> MessageRow \cup {None}]
  BY <1>1, <1>2 DEF ChatInv, ChatTypeOK
<1>4. ASSUME NEW n \in MessageIds, message'[n] # None, (message'[n]).side = "manager"
      PROVE  /\ (message'[n]).author \in Users
             /\ session'[(message'[n]).session] # None
             /\ Role[(message'[n]).author] = "manager"
                   /\ session'[(message'[n]).session].apartment # None
                => session'[(message'[n]).session].employee = (message'[n]).author
  <2>1. CASE n = m
    BY <1>1, <1>4, <2>1 DEF Entitled, ChatInv, ChatTypeOK
  <2>2. CASE n # m
    <3>1. message'[n] = message[n]
      BY <1>1, <2>2 DEF ChatInv, ChatTypeOK
    <3> QED
      BY <1>4, <3>1 DEF ChatInv, MessagesOK, Entitled
  <2> QED
    BY <2>1, <2>2
<1> QED
  BY <1>3, <1>4 DEF MessagesOK, Entitled

(* An answer to a request that is not a take, after a statement that left  *)
(* the sessions alone.                                                     *)
LEMMA AnsweredInv ==
    ASSUME ChatInv, NEW c \in ChatCalls, SessionsEvolve,
           session' \in [SessionIds -> SessionRow \cup {None}], GeneralUnassigned',
           message' \in [MessageIds -> MessageRow \cup {None}], MessagesOK',
           UNCHANGED rejections, Confirm(c),
           chat[c].req \in ChatRequests, chat[c].req.op # "take"
    PROVE  ChatInv'
<1>1. /\ chat' \in [ChatCalls -> ChatCall]
      /\ (chat'[c]).at = "done" /\ (chat'[c]).req = chat[c].req
      /\ \A d \in ChatCalls \ {c} : chat'[d] = chat[d]
  BY ConfirmTyped DEF ChatInv
<1>2. CallOK(c)' /\ \A s \in SessionIds : ~Took(c, s)'
  BY <1>1, DoneOK DEF Took
<1>3. RejectionsOK' /\ rejections' \subseteq Rejection
  BY RejectionsKept DEF ChatInv, ChatTypeOK
<1> QED
  BY <1>1, <1>2, <1>3, CallStepInv

LEMMA SendsInv ==
    ASSUME ChatInv, NEW c \in ChatCalls, Greet(c) \/ Post(c)
    PROVE  ChatInv'
<1> DEFINE k == chat[c]
<1>1. /\ k.req \in ChatRequests /\ k.req.op \in {"open", "send"}
      /\ k.session \in SessionIds /\ session[k.session] # None
      /\ k.req.actor \in Users \cup {None}
      /\ UNCHANGED <<session, rejections>> /\ Confirm(c)
  BY RequestKinds DEF Greet, Post, ChatInv, CallOK
<1>2. /\ session' \in [SessionIds -> SessionRow \cup {None}] /\ SessionsEvolve
      /\ GeneralUnassigned'
  BY <1>1, Unmoved DEF ChatInv, ChatTypeOK, GeneralUnassigned
<1>3. message' \in [MessageIds -> MessageRow \cup {None}] /\ MessagesOK'
  <2>1. CASE UNCHANGED message
    BY <1>1, <1>2, <2>1, MessagesKept DEF ChatInv, ChatTypeOK, MessagesOK
  <2>2. CASE Greet(c) /\ SendsMessage(k.session, k.req.actor, "client")
    BY <1>1, <2>2, SendsMessageOK
  <2>3. CASE Post(c)
    <3>1. k.req.actor \in Users /\ Entitled(k.req.actor, k.session)
      BY <2>3, <1>1, RequestKinds DEF Post, ChatInv, CallOK
    <3>2. SenderType(k.req.actor) \in {"client", "manager", "system"}
      BY DEF SenderType
    <3> QED
      BY <1>1, <2>3, <3>1, <3>2, SendsMessageOK DEF Post
  <2> QED
    BY <2>1, <2>2, <2>3 DEF Greet
<1> QED
  BY <1>1, <1>2, <1>3, AnsweredInv

(* Closing and hiding rewrite a column of a session and keep its employee. *)
LEMMA RewrittenOK ==
    ASSUME ChatInv, NEW s \in SessionIds, session[s] # None,
           \/ Closes(s)
           \/ session' = [session EXCEPT ![s].hidden = TRUE]
    PROVE  /\ session' \in [SessionIds -> SessionRow \cup {None}]
           /\ SessionsEvolve /\ GeneralUnassigned'
<1> DEFINE row == session[s]
<1>1. row \in SessionRow /\ session \in [SessionIds -> SessionRow \cup {None}]
  BY DEF ChatInv, ChatTypeOK
<1>2. PICK new \in SessionRow :
        /\ session' = [session EXCEPT ![s] = new]
        /\ new.user = row.user /\ new.employee = row.employee
        /\ new.apartment = row.apartment
  <2>1. ASSUME NEW old \in SessionRow
        PROVE  /\ [old EXCEPT !.status = "close"] \in SessionRow
               /\ [old EXCEPT !.hidden = TRUE] \in SessionRow
               /\ [old EXCEPT !.status = "close"].user = old.user
               /\ [old EXCEPT !.status = "close"].employee = old.employee
               /\ [old EXCEPT !.status = "close"].apartment = old.apartment
               /\ [old EXCEPT !.hidden = TRUE].user = old.user
               /\ [old EXCEPT !.hidden = TRUE].employee = old.employee
               /\ [old EXCEPT !.hidden = TRUE].apartment = old.apartment
    BY DEF SessionRow, SessionStatuses
  <2>2. CASE Closes(s)
    BY <1>1, <2>1, <2>2 DEF Closes
  <2>3. CASE session' = [session EXCEPT ![s].hidden = TRUE]
    BY <1>1, <2>1, <2>3
  <2> QED
    BY <2>2, <2>3
<1>3. session' \in [SessionIds -> SessionRow \cup {None}]
  BY <1>1, <1>2
<1>4. SessionsEvolve
  BY <1>1, <1>2, NoneIsNoRow DEF SessionsEvolve, Evolves
<1>5. GeneralUnassigned'
  BY <1>1, <1>2 DEF ChatInv, GeneralUnassigned
<1> QED
  BY <1>3, <1>4, <1>5

LEMMA ClosesInv ==
    ASSUME ChatInv, NEW c \in ChatCalls, Close(c) \/ CloseRejected(c)
    PROVE  ChatInv'
<1> DEFINE k == chat[c]
<1>1. /\ k.req \in ChatRequests /\ k.req.op # "take"
      /\ k.session \in SessionIds /\ session[k.session] # None
      /\ UNCHANGED <<message, rejections>> /\ Confirm(c)
      /\ Closes(k.session) \/ UNCHANGED session
  BY DEF Close, CloseRejected, ChatInv, CallOK
<1>2. /\ session' \in [SessionIds -> SessionRow \cup {None}] /\ SessionsEvolve
      /\ GeneralUnassigned'
  BY <1>1, RewrittenOK, Unmoved DEF ChatInv, ChatTypeOK, GeneralUnassigned
<1>3. message' \in [MessageIds -> MessageRow \cup {None}] /\ MessagesOK'
  BY <1>1, <1>2, MessagesKept DEF ChatInv, ChatTypeOK, MessagesOK
<1> QED
  BY <1>1, <1>2, <1>3, AnsweredInv

LEMMA HideInv ==
    ASSUME ChatInv, NEW c \in ChatCalls, NEW r \in ChatRequests, Hide(c, r)
    PROVE  ChatInv'
<1>1. UNCHANGED <<message, rejections>> /\ r.op = "hide" /\ r.session \in SessionIds
  BY RequestKinds DEF Hide, Starts
<1>2. CASE UNCHANGED session /\ Refuse(c, r, "error")
  BY <1>1, <1>2, RefuseInv DEF chatTables, ChatResults
<1>3. ASSUME session[r.session] # None, NEW result \in {"ok", "lost"}, Refuse(c, r, result),
             session' = [session EXCEPT ![r.session].hidden = TRUE]
      PROVE  ChatInv'
  <2>1. /\ session' \in [SessionIds -> SessionRow \cup {None}] /\ SessionsEvolve
        /\ GeneralUnassigned'
    BY <1>1, <1>3, RewrittenOK
  <2>2. /\ message' \in [MessageIds -> MessageRow \cup {None}] /\ rejections' \subseteq Rejection
        /\ MessagesOK' /\ RejectionsOK'
    BY <1>1, <2>1, MessagesKept, RejectionsKept DEF ChatInv, ChatTypeOK, MessagesOK
  <2>3. result \in ChatResults /\ ChatTypeOK
    BY DEF ChatResults, ChatInv
  <2>4. /\ chat' \in [ChatCalls -> ChatCall]
        /\ chat'[c] = [at |-> "done", req |-> r, session |-> None, told |-> result]
        /\ \A d \in ChatCalls \ {c} : chat'[d] = chat[d]
    BY <1>3, <2>3, RefuseTyped
  <2>5. CallOK(c)' /\ \A s \in SessionIds : ~Took(c, s)'
    BY <2>4, DoneOK, NoneIsNoRow DEF Took
  <2> QED
    BY <2>1, <2>2, <2>4, <2>5, CallStepInv
<1> QED
  BY <1>2, <1>3 DEF Hide

(* The guard of the UPDATE: an assignment replaces none.                   *)
LEMMA AssignInv ==
    ASSUME ChatInv, NEW c \in ChatCalls, Assign(c)
    PROVE  ChatInv'
<1> DEFINE k == chat[c]
           s == k.session
           u == k.req.actor
           row == session[s]
<1>1. /\ k.req \in ChatRequests /\ k.req.op = "take"
      /\ s \in SessionIds /\ row # None /\ row.apartment # None
      /\ UNCHANGED <<message, rejections>>
  BY DEF Assign, ChatInv, CallOK
<1>2. u \in Users
  BY <1>1, RequestKinds
<1>3. row \in SessionRow /\ session \in [SessionIds -> SessionRow \cup {None}]
  BY <1>1 DEF ChatInv, ChatTypeOK
<1>4. CASE Tell(c, "conflict") /\ UNCHANGED session
  <2>1. /\ chat' \in [ChatCalls -> ChatCall]
        /\ (chat'[c]).at = "done" /\ (chat'[c]).told = "conflict" /\ (chat'[c]).req = k.req
        /\ \A d \in ChatCalls \ {c} : chat'[d] = chat[d]
    BY <1>4, TellTyped DEF ChatInv, ChatResults
  <2>2. CallOK(c)' /\ \A t \in SessionIds : ~Took(c, t)'
    BY <1>1, <2>1, DoneOK DEF Took
  <2> QED
    BY <1>1, <1>4, <2>1, <2>2, ReadStepInv DEF chatTables
<1>5. CASE /\ Assignable(row) /\ Confirm(c)
           /\ session' = [session EXCEPT ![s].employee = u, ![s].status = "in_progress"]
  <2>1. ASSUME NEW old \in SessionRow
        PROVE  LET new == [old EXCEPT !.employee = u, !.status = "in_progress"]
               IN  new \in SessionRow /\ new.user = old.user
                   /\ new.apartment = old.apartment /\ new.employee = u
    BY <1>2 DEF SessionRow, SessionStatuses
  <2>2. PICK new \in SessionRow :
          /\ session' = [session EXCEPT ![s] = new]
          /\ new.user = row.user /\ new.apartment = row.apartment /\ new.employee = u
    BY <1>1, <1>3, <1>5, <2>1
  <2>3. row.employee = None
    BY <1>5 DEF Assignable
  <2>4. session' \in [SessionIds -> SessionRow \cup {None}]
    BY <1>3, <2>2
  <2>5. SessionsEvolve
    BY <1>3, <2>2, <2>3, NoneIsNoRow DEF SessionsEvolve, Evolves
  <2>6. GeneralUnassigned'
    BY <1>1, <1>3, <2>2 DEF ChatInv, GeneralUnassigned
  <2>7. /\ message' \in [MessageIds -> MessageRow \cup {None}] /\ rejections' \subseteq Rejection
        /\ MessagesOK' /\ RejectionsOK'
    BY <1>1, <2>5, MessagesKept, RejectionsKept DEF ChatInv, ChatTypeOK, MessagesOK
  <2>8. /\ chat' \in [ChatCalls -> ChatCall]
        /\ (chat'[c]).at = "done" /\ (chat'[c]).req = k.req /\ (chat'[c]).session = s
        /\ \A d \in ChatCalls \ {c} : chat'[d] = chat[d]
    BY <1>5, ConfirmTyped DEF ChatInv
  <2>9. CallOK(c)'
    BY <1>1, <2>8, DoneOK
  <2>10. session'[s] # None /\ session'[s].employee = u
    BY <1>1, <1>3, <2>2, NoneIsNoRow
  <2>11. ASSUME NEW t \in SessionIds, Took(c, t)'
         PROVE  session'[t] # None /\ session'[t].employee = (chat'[c]).req.actor
    BY <2>8, <2>10, <2>11 DEF Took
  <2> QED
    BY <2>4, <2>5, <2>6, <2>7, <2>8, <2>9, <2>11, CallStepInv
<1> QED
  BY <1>4, <1>5 DEF Assign

LEMMA RejectInv ==
    ASSUME ChatInv, NEW c \in ChatCalls, Reject(c)
    PROVE  ChatInv'
<1>1. PICK r \in ChatRequests, u \in Users, s \in SessionIds :
        /\ r = chat[c].req /\ u = r.actor /\ s = chat[c].session
        /\ r.op = "reject" /\ session[s] # None /\ Entitled(u, s)
  BY RequestKinds DEF Reject, ChatInv, CallOK
<1>2. /\ rejections' = rejections \cup {[session |-> s, employee |-> u]}
      /\ UNCHANGED <<session, message>> /\ Enter(c, r, "close_rejected", s)
  BY <1>1 DEF Reject
<1>3. rejections' \subseteq Rejection
  <2>1. [session |-> s, employee |-> u] \in Rejection
    BY DEF Rejection
  <2>2. rejections \subseteq Rejection
    BY DEF ChatInv, ChatTypeOK
  <2> QED
    BY <1>2, <2>1, <2>2
<1>4. RejectionsOK'
  <2> SUFFICES ASSUME NEW x \in rejections'
               PROVE  /\ session'[x.session] # None
                      /\ Role[x.employee] = "manager" /\ session'[x.session].apartment # None
                         => session'[x.session].employee = x.employee
    BY DEF RejectionsOK, Entitled
  <2>1. CASE x \in rejections
    BY <1>2, <2>1 DEF ChatInv, RejectionsOK, Entitled
  <2>2. CASE x = [session |-> s, employee |-> u]
    <3>1. x.session = s /\ x.employee = u
      BY <2>2
    <3> QED
      BY <1>1, <1>2, <3>1 DEF Entitled
  <2> QED
    BY <1>2, <2>1, <2>2
<1>5. /\ session' \in [SessionIds -> SessionRow \cup {None}] /\ SessionsEvolve
      /\ GeneralUnassigned'
      /\ message' \in [MessageIds -> MessageRow \cup {None}] /\ MessagesOK'
  BY <1>2, Unmoved, MessagesKept DEF ChatInv, ChatTypeOK, GeneralUnassigned, MessagesOK
<1>6. "close_rejected" \in ChatSteps /\ s \in SessionIds \cup {None} /\ ChatTypeOK
  BY DEF ChatSteps, ChatInv
<1>7. /\ chat' \in [ChatCalls -> ChatCall]
      /\ chat'[c] = [at |-> "close_rejected", req |-> r, session |-> s, told |-> "lost"]
      /\ \A d \in ChatCalls \ {c} : chat'[d] = chat[d]
  BY <1>2, <1>6, EnterTyped
<1>8. CallOK(c)' /\ \A t \in SessionIds : ~Took(c, t)'
  <2>1. /\ (chat'[c]).at = "close_rejected" /\ (chat'[c]).req = r
        /\ (chat'[c]).session = s
    BY <1>7
  <2>2. session'[s] # None
    BY <1>1, <1>2
  <2> QED
    BY <1>1, <2>1, <2>2 DEF CallOK, Took
<1> QED
  BY <1>3, <1>4, <1>5, <1>7, <1>8, CallStepInv

LEMMA MarkReadInv ==
    ASSUME ChatInv, NEW c \in ChatCalls, MarkRead(c)
    PROVE  ChatInv'
<1> DEFINE k == chat[c]
<1>1. /\ k.req \in ChatRequests /\ k.req.op = "read"
      /\ UNCHANGED <<session, rejections>> /\ Confirm(c)
  BY DEF MarkRead, ChatInv, CallOK, Confirm
<1>2. /\ session' \in [SessionIds -> SessionRow \cup {None}] /\ SessionsEvolve
      /\ GeneralUnassigned'
  BY <1>1, Unmoved DEF ChatInv, ChatTypeOK, GeneralUnassigned
<1>3. ASSUME NEW row \in MessageRow
      PROVE  /\ [row EXCEPT !.read = TRUE] \in MessageRow
             /\ [row EXCEPT !.read = TRUE].session = row.session
             /\ [row EXCEPT !.read = TRUE].author = row.author
             /\ [row EXCEPT !.read = TRUE].side = row.side
  BY DEF MessageRow
<1>4. /\ message' \in [MessageIds -> MessageRow \cup {None}]
      /\ \A m \in MessageIds : message'[m] # None =>
            /\ message[m] # None
            /\ message'[m].session = message[m].session
            /\ message'[m].author = message[m].author
            /\ message'[m].side = message[m].side
  <2>1. message \in [MessageIds -> MessageRow \cup {None}]
    BY DEF ChatInv, ChatTypeOK
  <2>2. PICK others \in SUBSET MessageIds :
          /\ \A m \in others : message[m] # None
          /\ message' = [m \in MessageIds |->
               IF m \in others THEN [message[m] EXCEPT !.read = TRUE] ELSE message[m]]
    <3>1. CASE UNCHANGED message
      <4>1. message' = [m \in MessageIds |-> message[m]]
        BY <2>1, <3>1
      <4>2. message' = [m \in MessageIds |->
              IF m \in {} THEN [message[m] EXCEPT !.read = TRUE] ELSE message[m]]
        BY <4>1
      <4>3. {} \in SUBSET MessageIds /\ \A m \in {} : message[m] # None
        OBVIOUS
      <4> QED
        BY <4>2, <4>3
    <3>2. CASE ~UNCHANGED message
      BY <3>2 DEF MarkRead, Messages
    <3> QED
      BY <3>1, <3>2
  <2>3. ASSUME NEW m \in MessageIds
        PROVE  \/ message'[m] = message[m]
               \/ message[m] \in MessageRow /\ message'[m] = [message[m] EXCEPT !.read = TRUE]
    BY <2>1, <2>2
  <2>4. ASSUME NEW m \in MessageIds
        PROVE  /\ message'[m] \in MessageRow \cup {None}
               /\ message'[m] # None =>
                    /\ message[m] # None
                    /\ message'[m].session = message[m].session
                    /\ message'[m].author = message[m].author
                    /\ message'[m].side = message[m].side
    BY <1>3, <2>1, <2>3, NoneIsNoRow
  <2>5. message' \in [MessageIds -> MessageRow \cup {None}]
    BY <2>2, <2>4
  <2> QED
    BY <2>4, <2>5
<1>5. MessagesOK'
  BY <1>2, <1>4, MessagesKept DEF ChatInv
<1> QED
  BY <1>1, <1>2, <1>4, <1>5, AnsweredInv
-----------------------------------------------------------------------------
LEMMA StepInv == ChatInv /\ [ChatNext]_chatVars => ChatInv'
<1> SUFFICES ASSUME ChatInv, [ChatNext]_chatVars PROVE ChatInv'
  OBVIOUS
<1>1. CASE UNCHANGED chatVars
  BY <1>1 DEF chatVars, ChatInv, ChatTypeOK, CallOK, GeneralUnassigned, AssignedStay, Took,
              MessagesOK, RejectionsOK, Entitled
<1>2. ASSUME NEW c \in ChatCalls, ChatStep(c) PROVE ChatInv'
  <2>1. ASSUME NEW r \in ChatRequests,
               \/ FindGeneral(c, r) \/ ReadForTake(c, r) \/ ReadForClose(c, r)
               \/ ReadForSend(c, r) \/ ReadForMessages(c, r) \/ Hide(c, r)
        PROVE  ChatInv'
    BY <2>1, FindGeneralInv, ReadsInv, HideInv
  <2>2. CASE Create(c)
    BY <2>2, CreateInv
  <2>3. CASE Greet(c) \/ Post(c)
    BY <2>3, SendsInv
  <2>4. CASE Assign(c)
    BY <2>4, AssignInv
  <2>5. CASE Close(c) \/ CloseRejected(c)
    BY <2>5, ClosesInv
  <2>6. CASE Reject(c)
    BY <2>6, RejectInv
  <2>7. CASE MarkRead(c)
    BY <2>7, MarkReadInv
  <2>8. CASE ChatAbandon(c)
    BY <2>8, AbandonInv
  <2> QED
    BY <1>2, <2>1, <2>2, <2>3, <2>4, <2>5, <2>6, <2>7, <2>8 DEF ChatStep
<1> QED
  BY <1>1, <1>2 DEF ChatNext

(***************************************************************************)
(* What a step may do to the tables, for the components that share them:   *)
(* sessions evolve, messages stay, and a step of theirs that does no more  *)
(* keeps the invariant of chat.                                            *)
(***************************************************************************)
MessagesStay ==
    \A m \in MessageIds : message[m] # None =>
        /\ message'[m] # None
        /\ message'[m].session = message[m].session
        /\ message'[m].author = message[m].author
        /\ message'[m].side = message[m].side

LEMMA SentStay ==
    ASSUME ChatInv, NEW s, NEW u, NEW side, SendsMessage(s, u, side)
    PROVE  MessagesStay
<1>1. PICK m \in MessageIds \ Messages : message' = [message EXCEPT ![m] =
          [session |-> s, author |-> u, side |-> side, read |-> FALSE]]
  BY DEF SendsMessage
<1>2. \A n \in MessageIds : message[n] # None => message'[n] = message[n]
  BY <1>1 DEF Messages, ChatInv, ChatTypeOK
<1> QED
  BY <1>2 DEF MessagesStay

LEMMA MarkedStay ==
    ASSUME ChatInv, NEW c \in ChatCalls, MarkRead(c)
    PROVE  MessagesStay
<1>1. CASE UNCHANGED message
  BY <1>1 DEF MessagesStay
<1>2. CASE ~UNCHANGED message
  <2>1. PICK others \in SUBSET MessageIds :
          message' = [m \in MessageIds |->
             IF m \in others THEN [message[m] EXCEPT !.read = TRUE] ELSE message[m]]
    BY <1>2 DEF MarkRead, Messages
  <2>2. ASSUME NEW row \in MessageRow
        PROVE  /\ [row EXCEPT !.read = TRUE] \in MessageRow
               /\ [row EXCEPT !.read = TRUE].session = row.session
               /\ [row EXCEPT !.read = TRUE].author = row.author
               /\ [row EXCEPT !.read = TRUE].side = row.side
    BY DEF MessageRow
  <2>3. ASSUME NEW m \in MessageIds, message[m] # None
        PROVE  /\ message[m] \in MessageRow
               /\ message'[m] \in {message[m], [message[m] EXCEPT !.read = TRUE]}
    BY <2>1, <2>3 DEF ChatInv, ChatTypeOK
  <2>4. ASSUME NEW m \in MessageIds, message[m] # None
        PROVE  /\ message'[m] # None
               /\ message'[m].session = message[m].session
               /\ message'[m].author = message[m].author
               /\ message'[m].side = message[m].side
    <3>1. CASE message'[m] = message[m]
      BY <2>4, <3>1
    <3>2. CASE message'[m] = [message[m] EXCEPT !.read = TRUE]
      <4>1. message[m] \in MessageRow
        BY <2>3, <2>4
      <4> QED
        BY <2>2, <3>2, <4>1, NoneIsNoRow
    <3> QED
      BY <2>3, <2>4, <3>1, <3>2
  <2> QED
    BY <2>4 DEF MessagesStay
<1> QED
  BY <1>1, <1>2

LEMMA CreateEvolves ==
    ASSUME ChatInv, NEW c \in ChatCalls, Create(c)
    PROVE  SessionsEvolve
<1>1. PICK s \in SessionIds \ Sessions : \E row : session' = [session EXCEPT ![s] = row]
  BY DEF Create
<1>2. \A t \in SessionIds : session[t] # None => session'[t] = session[t]
  BY <1>1 DEF Sessions, ChatInv, ChatTypeOK
<1> QED
  BY <1>2 DEF SessionsEvolve, Evolves

LEMMA AssignEvolves ==
    ASSUME ChatInv, NEW c \in ChatCalls, Assign(c)
    PROVE  SessionsEvolve
<1>1. CASE UNCHANGED session
  BY <1>1, Unmoved
<1>2. CASE ~UNCHANGED session
  <2> DEFINE s == chat[c].session
             u == chat[c].req.actor
  <2>1. /\ s \in SessionIds /\ session[s] # None /\ session[s].employee = None
        /\ chat[c].req \in ChatRequests /\ chat[c].req.op = "take"
        /\ session' = [session EXCEPT ![s].employee = u, ![s].status = "in_progress"]
    BY <1>2 DEF Assign, Assignable, ChatInv, CallOK
  <2>2. u \in Users
    BY <2>1, RequestKinds
  <2>3. session[s] \in SessionRow /\ session \in [SessionIds -> SessionRow \cup {None}]
    BY <2>1 DEF ChatInv, ChatTypeOK
  <2>4. ASSUME NEW old \in SessionRow
        PROVE  LET new == [old EXCEPT !.employee = u, !.status = "in_progress"]
               IN  new \in SessionRow /\ new.user = old.user /\ new.apartment = old.apartment
    BY <2>2 DEF SessionRow, SessionStatuses
  <2>5. PICK new \in SessionRow :
          /\ session' = [session EXCEPT ![s] = new]
          /\ new.user = session[s].user /\ new.apartment = session[s].apartment
    BY <2>1, <2>3, <2>4
  <2> QED
    BY <2>1, <2>3, <2>5, NoneIsNoRow DEF SessionsEvolve, Evolves
<1> QED
  BY <1>1, <1>2

LEMMA ChatEvolves == ChatInv /\ [ChatNext]_chatVars => SessionsEvolve /\ MessagesStay
<1> SUFFICES ASSUME ChatInv, [ChatNext]_chatVars PROVE SessionsEvolve /\ MessagesStay
  OBVIOUS
<1>1. UNCHANGED message => MessagesStay
  BY DEF MessagesStay
<1>2. CASE UNCHANGED chatVars
  BY <1>1, <1>2, Unmoved DEF chatVars
<1>3. ASSUME NEW c \in ChatCalls, ChatStep(c) PROVE SessionsEvolve /\ MessagesStay
  <2>1. CASE UNCHANGED chatTables
    BY <1>1, <2>1, Unmoved DEF chatTables
  <2>2. ASSUME NEW r \in ChatRequests, Hide(c, r) PROVE SessionsEvolve /\ MessagesStay
    <3>1. r.session \in SessionIds /\ UNCHANGED message
      BY <2>2, RequestKinds DEF Hide, Starts
    <3>2. \/ UNCHANGED session
          \/ /\ session[r.session] # None
             /\ session' = [session EXCEPT ![r.session].hidden = TRUE]
      BY <2>2 DEF Hide
    <3> QED
      BY <1>1, <3>1, <3>2, RewrittenOK, Unmoved
  <2>3. CASE Create(c)
    BY <1>1, <2>3, CreateEvolves DEF Create
  <2>4. CASE Greet(c) \/ Post(c)
    BY <1>1, <2>4, SentStay, Unmoved DEF Greet, Post
  <2>5. CASE Assign(c)
    BY <1>1, <2>5, AssignEvolves DEF Assign
  <2>6. CASE Close(c) \/ CloseRejected(c)
    <3>1. /\ chat[c].session \in SessionIds /\ session[chat[c].session] # None
          /\ Closes(chat[c].session) \/ UNCHANGED session
          /\ UNCHANGED message
      BY <2>6 DEF Close, CloseRejected, ChatInv, CallOK
    <3> QED
      BY <1>1, <3>1, RewrittenOK, Unmoved
  <2>7. CASE Reject(c)
    BY <1>1, <2>7, Unmoved DEF Reject
  <2>8. CASE MarkRead(c)
    BY <2>8, MarkedStay, Unmoved DEF MarkRead
  <2>9. ASSUME NEW r \in ChatRequests,
               \/ FindGeneral(c, r) \/ ReadForTake(c, r) \/ ReadForClose(c, r)
               \/ ReadForSend(c, r) \/ ReadForMessages(c, r)
        PROVE  UNCHANGED chatTables
    BY <2>9 DEF FindGeneral, ReadForTake, ReadForClose, ReadForSend, ReadForMessages
  <2>10. ChatAbandon(c) => UNCHANGED chatTables
    BY DEF ChatAbandon
  <2> QED
    BY <1>3, <2>1, <2>2, <2>3, <2>4, <2>5, <2>6, <2>7, <2>8, <2>9, <2>10 DEF ChatStep
<1> QED
  BY <1>2, <1>3 DEF ChatNext

LEMMA OutsideStepInv ==
    ASSUME ChatInv, SessionsEvolve, UNCHANGED <<rejections, chat>>,
           session' \in [SessionIds -> SessionRow \cup {None}], GeneralUnassigned',
           message' \in [MessageIds -> MessageRow \cup {None}], MessagesOK'
    PROVE  ChatInv'
<1>1. ChatTypeOK' /\ RejectionsOK'
  BY RejectionsKept DEF ChatInv, ChatTypeOK
<1>2. \A c \in ChatCalls : CallOK(c)'
  BY CallKept DEF ChatInv
<1>3. ASSUME NEW d \in ChatCalls, NEW s \in SessionIds, Took(d, s)'
      PROVE  session'[s] # None /\ session'[s].employee = chat'[d].req.actor
  <2>1. Took(d, s) /\ chat'[d] = chat[d]
    BY <1>3 DEF Took
  <2>2. session[s] # None /\ session[s].employee = chat[d].req.actor
    BY <2>1 DEF ChatInv, AssignedStay
  <2>3. chat[d].req \in ChatRequests /\ chat[d].req.op = "take"
    BY <2>1 DEF Took, ChatInv, CallOK
  <2>4. chat[d].req.actor # None
    BY <2>3, RequestKinds, NoneIsNoRow
  <2>5. Evolves(s)
    BY DEF SessionsEvolve
  <2> QED
    BY <2>1, <2>2, <2>4, <2>5 DEF Evolves
<1> QED
  BY <1>1, <1>2, <1>3 DEF ChatInv, AssignedStay
-----------------------------------------------------------------------------
LEMMA InvariantHolds == ChatSpec => []ChatInv
BY InitInv, StepInv, PTL DEF ChatSpec

(***************************************************************************)
(* Tables and requests in flight keep their types.                         *)
(***************************************************************************)
THEOREM ChatTypesCorrect == ChatSpec => []ChatTypeOK
<1>1. ChatInv => ChatTypeOK
  BY DEF ChatInv
<1> QED
  BY <1>1, InvariantHolds, PTL

(* What the invariant says of assignments, here and in a composition.      *)
LEMMA InvariantMeans == ChatInv => AssignmentStands /\ OnlyTheAssignedManagerActs
<1>1. ChatInv => AssignmentStands
  BY DEF ChatInv, AssignmentStands, AssignedStay, GeneralUnassigned, Sessions
<1>2. ChatInv => OnlyTheAssignedManagerActs
  BY DEF ChatInv, OnlyTheAssignedManagerActs, MessagesOK, RejectionsOK, Entitled, Sessions,
         Messages
<1> QED
  BY <1>1, <1>2

(***************************************************************************)
(* TakeSession: an acknowledged take stands, because the UPDATE looks at   *)
(* the employee again, and no general session is ever assigned.            *)
(***************************************************************************)
THEOREM AssignmentsStand == ChatSpec => []AssignmentStands
BY InvariantMeans, InvariantHolds, PTL

(***************************************************************************)
(* SendMessage and RejectSession: though the right to act was read before, *)
(* every manager whose message or rejection is stored in a session about   *)
(* an apartment is the one assigned to it.                                 *)
(***************************************************************************)
THEOREM AssignedManagerActs == ChatSpec => []OnlyTheAssignedManagerActs
BY InvariantMeans, InvariantHolds, PTL
=============================================================================
