------------------------------ MODULE Accounts ------------------------------
(***************************************************************************)
(* Accounts and tokens: registration, appointment of staff, login, the     *)
(* profile update of handler/user.go, and the update of a client's         *)
(* preferences that the agents ask for.  Register looks the e-mail up and  *)
(* inserts in another statement; UpdateUser reads the row, changes it in   *)
(* memory and writes it back.  Nothing is locked in between.               *)
(*                                                                         *)
(* A token carries the id and the role of its account and is checked       *)
(* against nothing but its signature; logging out clears a cookie and      *)
(* leaves the token valid.  So whoever was given a token may present it in *)
(* any later request, or not (it has expired).  The name and the password  *)
(* of an account take the same path and are one field, secret; a password  *)
(* and its hash are not told apart.                                        *)
(***************************************************************************)
EXTENDS Integers, FiniteSets

CONSTANTS
    UserIds, Emails, Secrets,
    Keys, Values,      \* a client's wishes: the budget and each preference
    Seeds,             \* Seeds[u]: the row u is born with, or None
    Calls, Requests, None

StaffRoles == {"manager", "supervisor"}
Roles == StaffRoles \cup {"user"}

Wishes == [Keys -> Values \cup {None}]

UserRow == [email : Emails, secret : Secrets, role : Roles, wishes : Wishes]

Request ==
    [op : {"register"}, email : Emails, secret : Secrets]
    \cup [op : {"appoint"}, email : Emails, secret : Secrets,
          role : StaffRoles \cup {None, "user"}]
    \cup [op : {"login"}, email : Emails, secret : Secrets, staff : BOOLEAN]
    \cup [op : {"update"}, email : Emails \cup {None}, secret : Secrets \cup {None}]
    \cup [op : {"wish"}, user : UserIds, patch : Wishes]

ASSUME RequestsAssumption == Requests \subseteq Request

ASSUME NoneAssumption ==
    /\ None \notin UserIds \cup Emails \cup Secrets \cup Values \cup Roles
    /\ None \notin UserRow \cup Request

ASSUME SeedsAssumption ==
    /\ Seeds \in [UserIds -> UserRow \cup {None}]
    /\ \A u, v \in UserIds :
          Seeds[u] # None /\ Seeds[v] # None /\ Seeds[u].email = Seeds[v].email => u = v

VARIABLES
    users,       \* the users table: a row, or None
    tokens,      \* tokens given to someone
    call,        \* call[c]: where a request stands
    appointer,   \* history: appointer[u], whose token created u, or None
    expected,    \* history: expected[u], the row had each request been one step
    overlapped   \* history: users with two updates under way at once

vars == <<users, tokens, call, appointer, expected, overlapped>>

Token == [id : UserIds, role : Roles]

Results == {"ok", "exists", "invalid", "unauthorized", "forbidden", "error", "lost"}

(* at: the next statement; by: the user who acts, or None; row: the row    *)
(* as read and changed in memory.                                          *)
Call == [at : {"idle", "insert", "write", "done"}, req : Requests \cup {None},
         by : UserIds \cup {None}, row : UserRow \cup {None}, told : Results]

Idle == [at |-> "idle", req |-> None, by |-> None, row |-> None, told |-> "lost"]

Rows == {u \in UserIds : users[u] # None}
WithEmail(e) == {u \in Rows : users[u].email = e}

NoWishes == [k \in Keys |-> None]

Init ==
    /\ users = Seeds
    /\ tokens = {}
    /\ call = [c \in Calls |-> Idle]
    /\ appointer = [u \in UserIds |-> None]
    /\ expected = Seeds
    /\ overlapped = {}
-----------------------------------------------------------------------------
Answer(c, r, result) ==
    call' = [call EXCEPT ![c] = [at |-> "done", req |-> r, by |-> None, row |-> None,
                                 told |-> result]]

Proceed(c, r, step, u, row) ==
    call' = [call EXCEPT ![c] = [at |-> step, req |-> r, by |-> u, row |-> row,
                                 told |-> "lost"]]

Asks(c, r, op) == call[c].at = "idle" /\ r.op = op

(* GenerateToken and ValidateToken: a token tells id and role, and a       *)
(* request is acted upon for the id and the role it tells.                 *)
TokenOf(u, row) == [id |-> u, role |-> row.role]

(* RequireSupervisorRole.  The mutant is RequireStaffRole.                 *)
StaffRole(t) == t.role \in StaffRoles
SupervisorRole(t) == t.role = "supervisor"

Newcomer(r, role) ==
    [email |-> r.email, secret |-> r.secret, role |-> role, wishes |-> NoWishes]

(* GetUserByEmail, the first statement of Register and RegisterStaff.      *)
LookUp(c, r, by, role) ==
    \/ /\ WithEmail(r.email) # {}
       /\ Answer(c, r, "exists")
    \/ /\ WithEmail(r.email) = {}
       /\ Proceed(c, r, "insert", by, Newcomer(r, role))

Register(c, r) ==
    /\ Asks(c, r, "register")
    /\ LookUp(c, r, None, "user")
    /\ UNCHANGED <<users, tokens, appointer, expected, overlapped>>

(* CreateStaff, behind RequireSupervisorRole; no role means manager.       *)
Appoint(c, r, t) ==
    /\ Asks(c, r, "appoint")
    /\ \/ /\ ~SupervisorRole(t)
          /\ Answer(c, r, "forbidden")
       \/ /\ SupervisorRole(t) /\ r.role = "user"
          /\ Answer(c, r, "invalid")
       \/ /\ SupervisorRole(t) /\ r.role # "user"
          /\ LookUp(c, r, t.id, IF r.role = None THEN "manager" ELSE r.role)
    /\ UNCHANGED <<users, tokens, appointer, expected, overlapped>>

(* The unique index on users.email, seen from a row other than u's.  The   *)
(* mutant has no index.                                                    *)
NeverTaken(email, u) == FALSE
Taken(email, u) == WithEmail(email) \ {u} # {}

(* The INSERT: a row with the e-mail that was stored since the look-up     *)
(* makes it fail, with an error no handler knows.                          *)
CreateUser(c) ==
    LET k == call[c] IN
    /\ k.at = "insert"
    /\ \E u \in UserIds \ Rows :
         \/ /\ Taken(k.row.email, u)
            /\ Answer(c, k.req, "error")
            /\ UNCHANGED <<users, appointer, expected>>
         \/ /\ ~Taken(k.row.email, u)
            /\ users' = [users EXCEPT ![u] = k.row]
            /\ expected' = [expected EXCEPT ![u] = k.row]
            /\ appointer' = [appointer EXCEPT ![u] = k.by]
            /\ Answer(c, k.req, "ok")
    /\ UNCHANGED <<tokens, overlapped>>

(* Login and LoginStaff: the row by e-mail, its password, and for staff    *)
(* its role.                                                               *)
Login(c, r) ==
    LET known == {u \in WithEmail(r.email) : users[u].secret = r.secret}
        admitted == {u \in known : r.staff => users[u].role \in StaffRoles}
    IN
    /\ Asks(c, r, "login")
    /\ \/ /\ known = {} /\ Answer(c, r, "unauthorized")
          /\ UNCHANGED tokens
       \/ /\ known # {} /\ admitted = {} /\ Answer(c, r, "forbidden")
          /\ UNCHANGED tokens
       \/ \E u \in admitted :
            /\ tokens' = tokens \cup {TokenOf(u, users[u])}
            /\ Answer(c, r, "ok")
    /\ UNCHANGED <<users, appointer, expected, overlapped>>
-----------------------------------------------------------------------------
(* UpdateMe: the fields that are given replace those of the row.           *)
Patched(row, r) ==
    [row EXCEPT !.email = IF r.email = None THEN @ ELSE r.email,
                !.secret = IF r.secret = None THEN @ ELSE r.secret]

UpdatersOf(u) == {c \in Calls : call[c].at = "write" /\ call[c].by = u}

ReadForUpdate(c, r, t) ==
    /\ Asks(c, r, "update")
    /\ Proceed(c, r, "write", t.id, Patched(users[t.id], r))
    /\ overlapped' = IF UpdatersOf(t.id) = {} THEN overlapped ELSE overlapped \cup {t.id}
    /\ UNCHANGED <<users, tokens, appointer, expected>>

(* UpdateUser writes three columns of the row read before.  The mutant     *)
(* writes all that was read.                                               *)
WrittenWhole(old, new) == new
Written(old, new) == [old EXCEPT !.email = new.email, !.secret = new.secret]

UpdateUser(c) ==
    LET k == call[c]
        u == k.by
    IN
    /\ k.at = "write"
    /\ \/ /\ Taken(k.row.email, u)
          /\ Answer(c, k.req, "error")
          /\ UNCHANGED <<users, tokens, expected>>
       \/ /\ ~Taken(k.row.email, u)
          /\ users' = [users EXCEPT ![u] = Written(@, k.row)]
          /\ expected' = [expected EXCEPT ![u] = Patched(@, k.req)]
          /\ tokens' = tokens \cup {TokenOf(u, k.row)}
          /\ Answer(c, k.req, "ok")
    /\ UNCHANGED <<appointer, overlapped>>

(* UpdateClientPreferences merges in one statement: COALESCE for the       *)
(* budget, || for the preferences.                                         *)
Merged(wishes, patch) ==
    [k \in Keys |-> IF patch[k] = None THEN wishes[k] ELSE patch[k]]

UpdateClientPreferences(c, r) ==
    LET u == r.user IN
    /\ Asks(c, r, "wish")
    /\ \/ /\ u \notin Rows
          /\ Answer(c, r, "error")
          /\ UNCHANGED <<users, expected>>
       \/ /\ u \in Rows
          /\ users' = [users EXCEPT ![u].wishes = Merged(@, r.patch)]
          /\ expected' = [expected EXCEPT ![u].wishes = Merged(@, r.patch)]
          /\ Answer(c, r, "ok")
    /\ UNCHANGED <<tokens, appointer, overlapped>>

(* The client is gone, or the process stops, before the next statement.    *)
Abandon(c) ==
    /\ call[c].at \in {"insert", "write"}
    /\ Answer(c, call[c].req, "lost")
    /\ UNCHANGED <<users, tokens, appointer, expected, overlapped>>

Next ==
    \E c \in Calls :
        \/ \E r \in Requests :
              \/ Register(c, r) \/ Login(c, r) \/ UpdateClientPreferences(c, r)
              \/ \E t \in tokens : Appoint(c, r, t) \/ ReadForUpdate(c, r, t)
        \/ CreateUser(c) \/ UpdateUser(c) \/ Abandon(c)

Spec == Init /\ [][Next]_vars
-----------------------------------------------------------------------------
(* Type invariant: rows, tokens and requests in flight.                    *)
TypeOK ==
    /\ users \in [UserIds -> UserRow \cup {None}]
    /\ tokens \subseteq Token
    /\ call \in [Calls -> Call]
    /\ appointer \in [UserIds -> UserIds \cup {None}]
    /\ expected \in [UserIds -> UserRow \cup {None}]
    /\ overlapped \subseteq UserIds

(***************************************************************************)
(* An e-mail belongs to one account, so that Login finds the account that  *)
(* was registered with it, although two registrations, or a registration   *)
(* and a profile update, may both have found the e-mail free.              *)
(***************************************************************************)
EmailsIdentifyAccounts ==
    \A u, v \in Rows : users[u].email = users[v].email => u = v

(***************************************************************************)
(* Authority has one source: a token tells the role of its account however *)
(* old the token is, and every member of staff who was not there from the  *)
(* start was created with the token of a supervisor.                       *)
(***************************************************************************)
AuthorityIsGranted ==
    /\ \A t \in tokens : t.id \in Rows /\ users[t.id].role = t.role
    /\ \A u \in Rows : users[u].role \in StaffRoles /\ Seeds[u] = None =>
          /\ appointer[u] \in Rows
          /\ users[appointer[u]].role = "supervisor"

(***************************************************************************)
(* An account is what its requests, one after another in the order of      *)
(* their writes, make of it, unless two profile updates of it overlapped;  *)
(* and even then its wishes and role are: a profile update never takes     *)
(* back the preferences that were stored between its read and its write.   *)
(***************************************************************************)
AsIfOneStep ==
    \A u \in UserIds :
        /\ u \notin overlapped => users[u] = expected[u]
        /\ u \in Rows => /\ users[u].wishes = expected[u].wishes
                         /\ users[u].role = expected[u].role
=============================================================================
