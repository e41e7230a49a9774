-------------------------------- MODULE Chat --------------------------------
(***************************************************************************)
(* Chat sessions: the requests of handler/chat.go, each a read that        *)
(* authorizes it followed by the statements of repository/chat.go, on the  *)
(* tables chat_sessions, messages and chat_session_rejections.  Requests   *)
(* of clients, guests and staff interleave statement by statement, and a   *)
(* request may be cut short between two of them.                           *)
(***************************************************************************)
EXTENDS Naturals

CONSTANTS
    Users, Role,             \* Role[u]: "user", "manager" or "supervisor"
    Apartments,
    SessionIds, MessageIds,
    ChatCalls, ChatRequests, \* requests in flight, and what they may ask for
    Faults,                  \* TRUE: statements whose errors are ignored may fail
    None

StaffRoles == {"manager", "supervisor"}

Staff == {u \in Users : Role[u] \in StaffRoles}

ChatRequest ==
    [op : {"open"}, actor : Users \cup {None}, apartment : Apartments \cup {None},
     greet : BOOLEAN]
    \cup [op : {"take", "close"}, actor : Staff, session : SessionIds]
    \cup [op : {"reject"}, actor : Staff, session : SessionIds, reason : BOOLEAN]
    \cup [op : {"send"}, actor : Users, session : SessionIds, text : BOOLEAN]
    \cup [op : {"read", "hide"}, actor : Users, session : SessionIds]

ASSUME ChatAssumption ==
    /\ Role \in [Users -> StaffRoles \cup {"user"}]
    /\ ChatRequests \subseteq ChatRequest
    /\ Faults \in BOOLEAN
    /\ None \notin Users \cup Apartments \cup SessionIds

VARIABLES
    session,      \* session[s]: a row of chat_sessions, or None
    message,      \* message[m]: a row of messages, or None
    rejections,   \* chat_session_rejections
    chat          \* chat[c]: where request c stands

chatTables == <<session, message, rejections>>
chatVars == <<session, message, rejections, chat>>

SessionStatuses == {"open", "in_progress", "pending_approval", "contract", "close"}

SessionRow == [user : Users \cup {None}, employee : Users \cup {None},
               apartment : Apartments \cup {None}, status : SessionStatuses,
               hidden : BOOLEAN]

MessageRow == [session : SessionIds, author : Users \cup {None},
               side : {"client", "manager", "system", "ai"}, read : BOOLEAN]

Rejection == [session : SessionIds, employee : Users]

ASSUME ChatNoneAssumption == None \notin SessionRow \cup MessageRow \cup ChatRequest

ChatSteps == {"idle", "create", "greet", "assign", "close", "reject", "close_rejected",
              "post", "mark", "done"}

ChatResults == {"ok", "not_found", "forbidden", "bad_request", "conflict", "error", "lost"}

(* A request in flight: next statement, request, session, what it is told. *)
ChatCall == [at : ChatSteps, req : ChatRequests \cup {None},
             session : SessionIds \cup {None}, told : ChatResults]

Sessions == {s \in SessionIds : session[s] # None}
Messages == {m \in MessageIds : message[m] # None}

CanRead(u, row) ==
    \/ Role[u] = "supervisor"
    \/ Role[u] = "manager" /\ row.employee \in {None, u}
    \/ Role[u] = "user" /\ row.user = u

CanManage(u, row) ==
    \/ Role[u] = "supervisor"
    \/ Role[u] = "manager" /\ (row.apartment = None \/ row.employee = u)

ChatInit ==
    /\ session = [s \in SessionIds |-> None]
    /\ message = [m \in MessageIds |-> None]
    /\ rejections = {}
    /\ chat = [c \in ChatCalls |->
                 [at |-> "idle", req |-> None, session |-> None, told |-> "lost"]]
-----------------------------------------------------------------------------
Enter(c, r, step, s) ==
    chat' = [chat EXCEPT ![c] = [at |-> step, req |-> r, session |-> s, told |-> "lost"]]

Refuse(c, r, result) ==
    chat' = [chat EXCEPT ![c] = [at |-> "done", req |-> r, session |-> None,
                                 told |-> result]]

Tell(c, result) ==
    chat' = [chat EXCEPT ![c].at = "done", ![c].told = result]

(* The statement took effect; its acknowledgement may be lost.             *)
Confirm(c) == Tell(c, "ok") \/ Tell(c, "lost")

Starts(c, r, op) == chat[c].at = "idle" /\ r.op = op

SendsMessage(s, u, side) ==
    \E m \in MessageIds \ Messages :
        message' = [message EXCEPT ![m] =
                      [session |-> s, author |-> u, side |-> side, read |-> FALSE]]

(***************************************************************************)
(* CreateSession.  An authenticated client without an apartment reuses a   *)
(* general session that is neither closed nor hidden; a new one is opened  *)
(* if there is none, or if the query fails.                                *)
(***************************************************************************)
Reusable(u) ==
    {s \in Sessions : /\ session[s].user = u
                      /\ ~session[s].hidden
                      /\ session[s].apartment = None
                      /\ session[s].status # "close"}

FindGeneral(c, r) ==
    LET general == r.actor # None /\ r.apartment = None
        mine == Reusable(r.actor)
    IN
    /\ Starts(c, r, "open")
    /\ \/ /\ general => mine = {} \/ Faults
          /\ Enter(c, r, "create", None)
       \/ /\ general
          /\ \E s \in mine :
                \/ r.greet /\ Enter(c, r, "greet", s)
                \/ ~r.greet /\ chat' = [chat EXCEPT ![c] = [at |-> "done", req |-> r,
                                                   session |-> s, told |-> "ok"]]
    /\ UNCHANGED chatTables

Create(c) ==
    LET r == chat[c].req IN
    /\ chat[c].at = "create"
    /\ \E s \in SessionIds \ Sessions :
         /\ session' = [session EXCEPT ![s] =
                [user |-> r.actor, employee |-> None, apartment |-> r.apartment,
                 status |-> "open", hidden |-> FALSE]]
         /\ \E result \in {"ok", "lost"} :
              chat' = [chat EXCEPT ![c] =
                 [at |-> IF r.greet /\ result = "ok" THEN "greet" ELSE "done",
                  req |-> r, session |-> s, told |-> IF r.greet THEN "lost" ELSE result]]
    /\ UNCHANGED <<message, rejections>>

(* The first message; an error is ignored.                                 *)
Greet(c) ==
    /\ chat[c].at = "greet"
    /\ \/ SendsMessage(chat[c].session, chat[c].req.actor, "client")
       \/ Faults /\ UNCHANGED message
    /\ Confirm(c)
    /\ UNCHANGED <<session, rejections>>
-----------------------------------------------------------------------------
(* TakeSession: the handler looks first, the UPDATE decides.               *)
ReadForTake(c, r) ==
    LET row == session[r.session] IN
    /\ Starts(c, r, "take")
    /\ \/ row = None /\ Refuse(c, r, "not_found")
       \/ row # None /\ row.apartment = None /\ Refuse(c, r, "bad_request")
       \/ /\ row # None /\ row.apartment # None
          /\ \/ row.employee # None /\ Refuse(c, r, "conflict")
             \/ row.employee = None /\ Enter(c, r, "assign", r.session)
    /\ UNCHANGED chatTables

(* The mutant leaves the check to the handler.                             *)
AssignableAlways(row) == TRUE
Assignable(row) == row.employee = None

Assign(c) ==
    LET s == chat[c].session IN
    /\ chat[c].at = "assign"
    /\ \/ /\ Assignable(session[s])
          /\ session' = [session EXCEPT ![s].employee = chat[c].req.actor,
                                        ![s].status = "in_progress"]
          /\ Confirm(c)
       \/ ~Assignable(session[s]) /\ Tell(c, "conflict") /\ UNCHANGED session
    /\ UNCHANGED <<message, rejections>>
-----------------------------------------------------------------------------
(* CloseSession and RejectSession: staff who may manage the session as     *)
(* read; a rejection needs a reason, and closes the session after it has   *)
(* been stored, ignoring an error.                                         *)
ReadForClose(c, r) ==
    LET row == session[r.session] IN
    /\ Starts(c, r, "close") \/ Starts(c, r, "reject")
    /\ \/ row = None /\ Refuse(c, r, "not_found")
       \/ row # None /\ ~CanManage(r.actor, row) /\ Refuse(c, r, "forbidden")
       \/ /\ row # None /\ CanManage(r.actor, row)
          /\ \/ r.op = "close" /\ Enter(c, r, "close", r.session)
             \/ r.op = "reject" /\ ~r.reason /\ Refuse(c, r, "bad_request")
             \/ r.op = "reject" /\ r.reason /\ Enter(c, r, "reject", r.session)
    /\ UNCHANGED chatTables

Closes(s) == session' = [session EXCEPT ![s].status = "close"]

Close(c) ==
    /\ chat[c].at = "close"
    /\ Closes(chat[c].session)
    /\ Confirm(c)
    /\ UNCHANGED <<message, rejections>>

Reject(c) ==
    /\ chat[c].at = "reject"
    /\ rejections' = rejections \cup
         {[session |-> chat[c].session, employee |-> chat[c].req.actor]}
    /\ Enter(c, chat[c].req, "close_rejected", chat[c].session)
    /\ UNCHANGED <<session, message>>

CloseRejected(c) ==
    /\ chat[c].at = "close_rejected"
    /\ Closes(chat[c].session) \/ (Faults /\ UNCHANGED session)
    /\ Confirm(c)
    /\ UNCHANGED <<message, rejections>>
-----------------------------------------------------------------------------
(* SendMessage: clients in their sessions, staff in those they manage.     *)
(* The mutant lets managers write wherever they may read.                  *)
MaySendWhereRead(u, row) == CanRead(u, row)
MaySend(u, row) == CanRead(u, row) /\ (Role[u] = "user" \/ CanManage(u, row))

ReadForSend(c, r) ==
    LET row == session[r.session] IN
    /\ Starts(c, r, "send")
    /\ \/ row = None /\ Refuse(c, r, "not_found")
       \/ row # None /\ ~MaySend(r.actor, row) /\ Refuse(c, r, "forbidden")
       \/ row # None /\ MaySend(r.actor, row) /\ ~r.text /\ Refuse(c, r, "bad_request")
       \/ row # None /\ MaySend(r.actor, row) /\ r.text /\ Enter(c, r, "post", r.session)
    /\ UNCHANGED chatTables

(* The side of a message: sender_type.                                     *)
SenderType(u) == IF u \in Staff THEN "manager" ELSE "client"

Post(c) ==
    LET u == chat[c].req.actor IN
    /\ chat[c].at = "post"
    /\ SendsMessage(chat[c].session, u, SenderType(u))
    /\ Confirm(c)
    /\ UNCHANGED <<session, rejections>>

(* GetMessages: the messages of others are marked read after they have     *)
(* been fetched, by a statement that may fail without notice.              *)
ReadForMessages(c, r) ==
    LET row == session[r.session] IN
    /\ Starts(c, r, "read")
    /\ \/ row = None /\ Refuse(c, r, "not_found")
       \/ row # None /\ ~CanRead(r.actor, row) /\ Refuse(c, r, "forbidden")
       \/ row # None /\ CanRead(r.actor, row) /\ Enter(c, r, "mark", r.session)
    /\ UNCHANGED chatTables

MarkRead(c) ==
    LET others == {m \in Messages : /\ message[m].session = chat[c].session
                                    /\ message[m].author # chat[c].req.actor}
    IN
    /\ chat[c].at = "mark"
    /\ \/ message' = [m \in MessageIds |->
            IF m \in others THEN [message[m] EXCEPT !.read = TRUE] ELSE message[m]]
       \/ Faults /\ UNCHANGED message
    /\ Tell(c, "ok")
    /\ UNCHANGED <<session, rejections>>

(* DeleteSessionForUser: one statement that hides the client's session.    *)
Hide(c, r) ==
    LET row == session[r.session]
        own == row # None /\ row.user = r.actor
    IN
    /\ Starts(c, r, "hide")
    /\ \/ /\ own
          /\ session' = [session EXCEPT ![r.session].hidden = TRUE]
          /\ \E result \in {"ok", "lost"} : Refuse(c, r, result)
       \/ ~own /\ Refuse(c, r, "error") /\ UNCHANGED session
    /\ UNCHANGED <<message, rejections>>

(* The request is cut short before its next statement.                     *)
ChatAbandon(c) ==
    /\ chat[c].at \notin {"idle", "done"}
    /\ Tell(c, "lost")
    /\ UNCHANGED chatTables

ChatStep(c) ==
    \/ \E r \in ChatRequests :
          \/ FindGeneral(c, r) \/ ReadForTake(c, r) \/ ReadForClose(c, r)
          \/ ReadForSend(c, r) \/ ReadForMessages(c, r) \/ Hide(c, r)
    \/ Create(c) \/ Greet(c) \/ Assign(c) \/ Close(c) \/ Reject(c) \/ CloseRejected(c)
    \/ Post(c) \/ MarkRead(c) \/ ChatAbandon(c)

ChatNext == \E c \in ChatCalls : ChatStep(c)

(* Chat without deals.                                                     *)
ChatSpec == ChatInit /\ [][ChatNext]_chatVars
-----------------------------------------------------------------------------
(* Type invariant: sessions, messages, rejections and requests in flight.  *)
ChatTypeOK ==
    /\ session \in [SessionIds -> SessionRow \cup {None}]
    /\ message \in [MessageIds -> MessageRow \cup {None}]
    /\ rejections \subseteq Rejection
    /\ chat \in [ChatCalls -> ChatCall]

Took(c, s) == /\ chat[c].at = "done" /\ chat[c].told = "ok"
              /\ chat[c].req.op = "take" /\ chat[c].session = s

(***************************************************************************)
(* However takes interleave, one that was acknowledged stands: the session *)
(* belongs to its actor from then on, so no two are acknowledged; and a    *)
(* general session, which needs no taking, is never assigned.              *)
(***************************************************************************)
AssignmentStands ==
    \A s \in Sessions :
        /\ \A c \in ChatCalls : Took(c, s) => session[s].employee = chat[c].req.actor
        /\ session[s].apartment = None => session[s].employee = None

(***************************************************************************)
(* In a session about an apartment, every manager who has written to the   *)
(* client, and every manager whose rejection is on record, is the one the  *)
(* session is assigned to: the right to do so is read statements before    *)
(* the message or the rejection is stored.                                 *)
(***************************************************************************)
OnlyTheAssignedManagerActs ==
    \A s \in Sessions : session[s].apartment # None =>
        /\ \A m \in Messages :
              message[m].session = s /\ message[m].side = "manager"
                 /\ Role[message[m].author] = "manager"
              => message[m].author = session[s].employee
        /\ \A r \in rejections :
              r.session = s /\ Role[r.employee] = "manager"
              => r.employee = session[s].employee
=============================================================================
