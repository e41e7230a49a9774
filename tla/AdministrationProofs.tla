------------------------ MODULE AdministrationProofs ------------------------
(***************************************************************************)
(* Proofs about what staff administer: Accounts, for any number of         *)
(* accounts, requests and tokens, and DiscountPolicies, for any number of  *)
(* transactions, policies and instants.  The two share no state; each half *)
(* has an inductive invariant of its own.                                  *)
(*                                                                         *)
(* The properties of Accounts say nothing of requests in flight; IInv adds *)
(* that a row about to be inserted was granted its role, and that a row    *)
(* about to be written back belongs to an account whose role it has and,   *)
(* unless updates of the account overlapped, holds what the request makes  *)
(* of the account as it is now.                                            *)
(*                                                                         *)
(* PoliciesInv says that a closed policy has a successor that starts when  *)
(* it ends, and that what a transaction is about to close is open, started *)
(* earlier and is locked by it alone.                                      *)
(***************************************************************************)
EXTENDS Accounts, DiscountPolicies, TLAPS

Supervises(u) == u \in Rows /\ users[u].role = "supervisor"

InsertOK(c) ==
    call[c].at = "insert" =>
        /\ call[c].row \in UserRow
        /\ call[c].row.role \in StaffRoles => Supervises(call[c].by)

Fresh(row, old, r) ==
    /\ row.email = IF r.email = None THEN old.email ELSE r.email
    /\ row.secret = IF r.secret = None THEN old.secret ELSE r.secret

WriteOK(c) ==
    call[c].at = "write" =>
        /\ call[c].by \in Rows
        /\ call[c].row \in UserRow
        /\ call[c].row.role = users[call[c].by].role
        /\ call[c].req \in Requests /\ call[c].req.op = "update"
        /\ call[c].by \notin overlapped =>
              Fresh(call[c].row, users[call[c].by], call[c].req)

Alone ==
    \A c, d \in Calls :
        /\ call[c].at = "write" /\ call[d].at = "write"
        /\ call[c].by = call[d].by /\ call[c].by \notin overlapped
        => c = d

Tracked == \A u \in UserIds : users[u] = None <=> expected[u] = None

IInv ==
    /\ TypeOK
    /\ EmailsIdentifyAccounts
    /\ AuthorityIsGranted
    /\ AsIfOneStep
    /\ \A c \in Calls : InsertOK(c) /\ WriteOK(c)
    /\ Alone
    /\ Tracked

(* Accounts stay, and so do their roles.                                   *)
Kept ==
    \A u \in UserIds :
        users[u] # None => users'[u] # None /\ users'[u].role = users[u].role

-----------------------------------------------------------------------------
(* What the requests hold.                                                 *)
LEMMA RequestFields ==
    ASSUME NEW r \in Requests
    PROVE  /\ r \in Request
           /\ r.op \in {"register", "appoint"} => r.email \in Emails /\ r.secret \in Secrets
           /\ r.op = "appoint" => r.role \in StaffRoles \cup {None, "user"}
           /\ r.op = "login" => r.email \in Emails
           /\ r.op = "update" => /\ r.email \in Emails \cup {None}
                                 /\ r.secret \in Secrets \cup {None}
           /\ r.op = "wish" => r.user \in UserIds /\ r.patch \in Wishes
BY RequestsAssumption DEF Request

LEMMA RowFields ==
    ASSUME NEW row \in UserRow
    PROVE  /\ row # None
           /\ row.email \in Emails /\ row.secret \in Secrets
           /\ row.role \in Roles /\ row.wishes \in Wishes
           /\ row = [email |-> row.email, secret |-> row.secret, role |-> row.role,
                     wishes |-> row.wishes]
BY NoneAssumption DEF UserRow

LEMMA Existing ==
    ASSUME TypeOK, NEW u \in Rows
    PROVE  u \in UserIds /\ users[u] \in UserRow
BY DEF TypeOK, Rows

(* A row after a profile update.                                           *)
LEMMA PatchedIs ==
    ASSUME NEW row \in UserRow, NEW r \in Requests, r.op = "update"
    PROVE  /\ Patched(row, r) \in UserRow
           /\ Patched(row, r).role = row.role
           /\ Patched(row, r).wishes = row.wishes
           /\ Fresh(Patched(row, r), row, r)
<1>1. /\ r.email \in Emails \cup {None}
      /\ r.secret \in Secrets \cup {None}
  BY RequestFields
<1> QED
  BY <1>1 DEF Patched, Fresh, UserRow

LEMMA MergedTyped ==
    ASSUME NEW wishes \in Wishes, NEW patch \in Wishes
    PROVE  Merged(wishes, patch) \in Wishes
BY DEF Merged, Wishes

LEMMA IdleTyped == Idle \in Call
BY DEF Idle, Call, Results

(* A call that has ended, and one that goes on.                            *)
LEMMA AnswerIs ==
    ASSUME TypeOK, NEW c \in Calls, NEW r \in Requests \cup {None}, NEW result \in Results,
           Answer(c, r, result)
    PROVE  /\ call' \in [Calls -> Call]
           /\ call'[c].at = "done"
           /\ \A d \in Calls \ {c} : call'[d] = call[d]
<1> DEFINE k == [at |-> "done", req |-> r, by |-> None, row |-> None, told |-> result]
<1>1. k \in Call /\ k.at = "done"
  BY DEF Call
<1>2. call' = [call EXCEPT ![c] = k]
  BY DEF Answer
<1> QED
  BY <1>1, <1>2 DEF TypeOK

LEMMA ProceedIs ==
    ASSUME TypeOK, NEW c \in Calls, NEW r \in Requests, NEW step \in {"insert", "write"},
           NEW u \in UserIds \cup {None}, NEW row \in UserRow,
           Proceed(c, r, step, u, row)
    PROVE  /\ call' \in [Calls -> Call]
           /\ call'[c].at = step /\ call'[c].req = r
           /\ call'[c].by = u /\ call'[c].row = row
           /\ \A d \in Calls \ {c} : call'[d] = call[d]
<1> DEFINE k == [at |-> step, req |-> r, by |-> u, row |-> row, told |-> "lost"]
<1>1. k \in Call /\ k.at = step /\ k.req = r /\ k.by = u /\ k.row = row
  BY DEF Call, Results
<1>2. call' = [call EXCEPT ![c] = k]
  BY DEF Proceed
<1> QED
  BY <1>1, <1>2 DEF TypeOK
-----------------------------------------------------------------------------
(* What the steps of others leave of a request in flight.                  *)
LEMMA InsertKept ==
    ASSUME NEW c \in Calls, InsertOK(c), Kept, call'[c] = call[c]
    PROVE  InsertOK(c)'
BY DEF InsertOK, Supervises, Kept, Rows

LEMMA WriteKept ==
    ASSUME NEW c \in Calls, WriteOK(c), Kept, call'[c] = call[c],
           overlapped \subseteq overlapped',
           call[c].at = "write" /\ call[c].by \notin overlapped' =>
               /\ users'[call[c].by].email = users[call[c].by].email
               /\ users'[call[c].by].secret = users[call[c].by].secret
    PROVE  WriteOK(c)'
<1> SUFFICES ASSUME call[c].at = "write" PROVE WriteOK(c)'
  BY DEF WriteOK
<1> DEFINE u == call[c].by
<1>1. /\ u \in UserIds /\ users[u] # None
      /\ call[c].row \in UserRow /\ call[c].row.role = users[u].role
      /\ call[c].req \in Requests /\ call[c].req.op = "update"
  BY DEF WriteOK, Rows
<1>2. users'[u] # None /\ users'[u].role = users[u].role
  BY <1>1 DEF Kept
<1>3. u \notin overlapped' => Fresh(call[c].row, users'[u], call[c].req)
  BY DEF WriteOK, Fresh
<1> QED
  BY <1>1, <1>2, <1>3 DEF WriteOK, Rows

LEMMA AloneKept ==
    ASSUME Alone, NEW c \in Calls, overlapped \subseteq overlapped',
           \A d \in Calls \ {c} : call'[d] = call[d],
           call'[c].at # "write"
    PROVE  Alone'
BY DEF Alone

(* A step of one request that changes no account.                          *)
LEMMA TableUnchanged ==
    ASSUME IInv, NEW c \in Calls, UNCHANGED <<users, appointer, expected>>,
           call' \in [Calls -> Call], \A d \in Calls \ {c} : call'[d] = call[d],
           overlapped \subseteq overlapped', overlapped' \subseteq UserIds,
           tokens' \subseteq Token,
           \A t \in tokens' : t.id \in Rows /\ users[t.id].role = t.role,
           InsertOK(c)', WriteOK(c)', Alone'
    PROVE  IInv'
<1>1. TypeOK'
  BY DEF IInv, TypeOK
<1>2. EmailsIdentifyAccounts'
  BY DEF IInv, EmailsIdentifyAccounts, Rows
<1>3. AuthorityIsGranted'
  BY DEF IInv, AuthorityIsGranted, Rows
<1>4. AsIfOneStep'
  BY DEF IInv, AsIfOneStep, Rows
<1>5. Kept
  BY DEF Kept
<1>6. ASSUME NEW d \in Calls PROVE InsertOK(d)' /\ WriteOK(d)'
  <2>1. CASE d = c
    BY <2>1
  <2>2. CASE d # c
    BY <2>2, <1>5, InsertKept, WriteKept DEF IInv
  <2> QED
    BY <2>1, <2>2
<1>7. Tracked'
  BY DEF IInv, Tracked
<1> QED
  BY <1>1, <1>2, <1>3, <1>4, <1>6, <1>7 DEF IInv

(* A request is answered, and nothing else happens but a login.            *)
LEMMA Answered ==
    ASSUME IInv, NEW c \in Calls, NEW r \in Requests \cup {None}, NEW result \in Results,
           Answer(c, r, result), UNCHANGED <<users, appointer, expected, overlapped>>,
           tokens' \subseteq Token,
           \A t \in tokens' : t.id \in Rows /\ users[t.id].role = t.role
    PROVE  IInv'
<1>1. /\ call' \in [Calls -> Call] /\ call'[c].at = "done"
      /\ \A d \in Calls \ {c} : call'[d] = call[d]
  BY AnswerIs DEF IInv
<1>2. InsertOK(c)' /\ WriteOK(c)'
  BY <1>1 DEF InsertOK, WriteOK
<1>3. Alone'
  BY <1>1, AloneKept DEF IInv
<1>4. overlapped' \subseteq UserIds
  BY DEF IInv, TypeOK
<1> QED
  BY <1>1, <1>2, <1>3, <1>4, TableUnchanged

LEMMA TokensKept ==
    ASSUME IInv, UNCHANGED tokens
    PROVE  /\ tokens' \subseteq Token
           /\ \A t \in tokens' : t.id \in Rows /\ users[t.id].role = t.role
BY DEF IInv, TypeOK, AuthorityIsGranted
-----------------------------------------------------------------------------
LEMMA InitInv == Init => IInv
<1> SUFFICES ASSUME Init PROVE IInv
  OBVIOUS
<1>1. \A c \in Calls : call[c] = Idle /\ call[c].at = "idle"
  BY DEF Init, Idle
<1>2. TypeOK
  BY SeedsAssumption, IdleTyped DEF Init, TypeOK
<1>3. EmailsIdentifyAccounts
  BY SeedsAssumption DEF Init, EmailsIdentifyAccounts, Rows
<1>4. AuthorityIsGranted
  BY DEF Init, AuthorityIsGranted, Rows
<1>5. AsIfOneStep
  BY DEF Init, AsIfOneStep
<1>6. \A c \in Calls : InsertOK(c) /\ WriteOK(c)
  BY <1>1 DEF InsertOK, WriteOK
<1>7. Alone
  BY <1>1 DEF Alone
<1>8. Tracked
  BY DEF Init, Tracked
<1> QED
  BY <1>2, <1>3, <1>4, <1>5, <1>6, <1>7, <1>8 DEF IInv

LEMMA NewcomerTyped ==
    ASSUME NEW r \in Requests, r.op \in {"register", "appoint"}, NEW role \in Roles
    PROVE  Newcomer(r, role) \in UserRow /\ Newcomer(r, role).role = role
<1>1. r.email \in Emails /\ r.secret \in Secrets
  BY RequestFields
<1>2. NoWishes \in Wishes
  BY DEF NoWishes, Wishes
<1> QED
  BY <1>1, <1>2 DEF Newcomer, UserRow

LEMMA LookUpInv ==
    ASSUME IInv, NEW c \in Calls, NEW r \in Requests, r.op \in {"register", "appoint"},
           NEW by \in UserIds \cup {None}, NEW role \in Roles,
           role \in StaffRoles => Supervises(by),
           LookUp(c, r, by, role),
           UNCHANGED <<users, tokens, appointer, expected, overlapped>>
    PROVE  IInv'
<1>1. CASE Answer(c, r, "exists")
  BY <1>1, Answered, TokensKept DEF Results
<1>2. CASE Proceed(c, r, "insert", by, Newcomer(r, role))
  <2>1. Newcomer(r, role) \in UserRow /\ Newcomer(r, role).role = role
    BY NewcomerTyped
  <2> DEFINE row == Newcomer(r, role)
  <2> HIDE DEF row
  <2>2. /\ call' \in [Calls -> Call]
        /\ call'[c].at = "insert" /\ call'[c].by = by /\ call'[c].row = row
        /\ \A d \in Calls \ {c} : call'[d] = call[d]
    BY <1>2, <2>1, ProceedIs DEF IInv, row
  <2>3. InsertOK(c)' /\ WriteOK(c)'
    BY <2>1, <2>2 DEF InsertOK, WriteOK, Supervises, Rows, row
  <2>4. Alone'
    BY <2>2, AloneKept DEF IInv
  <2>5. overlapped' \subseteq UserIds
    BY DEF IInv, TypeOK
  <2> QED
    BY <2>2, <2>3, <2>4, <2>5, TokensKept, TableUnchanged
<1> QED
  BY <1>1, <1>2 DEF LookUp

LEMMA TokenTells ==
    ASSUME IInv, NEW t \in tokens
    PROVE  /\ t.id \in UserIds /\ t.id \in Rows
           /\ users[t.id] \in UserRow /\ users[t.id].role = t.role
BY Existing DEF IInv, AuthorityIsGranted

LEMMA RegisterInv ==
    ASSUME IInv, NEW c \in Calls, NEW r \in Requests, Register(c, r)
    PROVE  IInv'
<1>1. "user" \in Roles /\ "user" \notin StaffRoles
  BY DEF Roles, StaffRoles
<1> QED
  BY <1>1, LookUpInv DEF Register, Asks

LEMMA AppointInv ==
    ASSUME IInv, NEW c \in Calls, NEW r \in Requests, NEW t \in tokens, Appoint(c, r, t)
    PROVE  IInv'
<1>1. CASE Answer(c, r, "forbidden") \/ Answer(c, r, "invalid")
  BY <1>1, Answered, TokensKept DEF Appoint, Results
<1>2. CASE /\ SupervisorRole(t) /\ r.role # "user"
           /\ LookUp(c, r, t.id, IF r.role = None THEN "manager" ELSE r.role)
  <2> DEFINE role == IF r.role = None THEN "manager" ELSE r.role
  <2>1. r.op = "appoint" /\ r.role \in StaffRoles \cup {None, "user"}
    BY RequestFields DEF Appoint, Asks
  <2>2. role \in Roles
    BY <1>2, <2>1 DEF Roles, StaffRoles
  <2>3. Supervises(t.id) /\ t.id \in UserIds
    BY <1>2, TokenTells DEF Supervises, SupervisorRole
  <2> HIDE DEF role
  <2>4. LookUp(c, r, t.id, role)
    BY <1>2 DEF role
  <2>5. UNCHANGED <<users, tokens, appointer, expected, overlapped>>
    BY DEF Appoint
  <2> QED
    BY <2>1, <2>2, <2>3, <2>4, <2>5, LookUpInv
<1> QED
  BY <1>1, <1>2 DEF Appoint

LEMMA LoginInv ==
    ASSUME IInv, NEW c \in Calls, NEW r \in Requests, Login(c, r)
    PROVE  IInv'
<1>1. CASE UNCHANGED tokens /\ (Answer(c, r, "unauthorized") \/ Answer(c, r, "forbidden"))
  BY <1>1, Answered, TokensKept DEF Login, Results
<1>2. ASSUME NEW u \in Rows, tokens' = tokens \cup {TokenOf(u, users[u])},
             Answer(c, r, "ok")
      PROVE  IInv'
  <2>1. u \in UserIds /\ users[u] \in UserRow /\ users[u].role \in Roles
    BY Existing, RowFields DEF IInv
  <2>2. /\ TokenOf(u, users[u]) \in Token
        /\ TokenOf(u, users[u]).id = u /\ TokenOf(u, users[u]).role = users[u].role
    BY <2>1 DEF TokenOf, Token
  <2>3. /\ tokens' \subseteq Token
        /\ \A t \in tokens' : t.id \in Rows /\ users[t.id].role = t.role
    BY <1>2, <2>2 DEF IInv, TypeOK, AuthorityIsGranted
  <2> QED
    BY <1>2, <2>3, Answered DEF Login, Results
<1> QED
  BY <1>1, <1>2 DEF Login, WithEmail

LEMMA AbandonInv ==
    ASSUME IInv, NEW c \in Calls, Abandon(c)
    PROVE  IInv'
<1>1. call[c].req \in Requests \cup {None}
  BY DEF IInv, TypeOK, Call
<1> QED
  BY <1>1, Answered, TokensKept DEF Abandon, Results

LEMMA ReadForUpdateInv ==
    ASSUME IInv, NEW c \in Calls, NEW r \in Requests, NEW t \in tokens,
           ReadForUpdate(c, r, t)
    PROVE  IInv'
<1> DEFINE u == t.id
           row == Patched(users[u], r)
<1>1. u \in UserIds /\ u \in Rows /\ users[u] \in UserRow
  BY TokenTells
<1>2. r.op = "update"
  BY DEF ReadForUpdate, Asks
<1>3. row \in UserRow /\ row.role = users[u].role /\ Fresh(row, users[u], r)
  BY <1>1, <1>2, PatchedIs
<1>4. Proceed(c, r, "write", u, row)
  BY DEF ReadForUpdate
<1>5. call[c].at = "idle"
  BY DEF ReadForUpdate, Asks
<1>6. overlapped' = IF UpdatersOf(u) = {} THEN overlapped ELSE overlapped \cup {u}
  BY DEF ReadForUpdate
<1>7. UNCHANGED <<users, tokens, appointer, expected>>
  BY DEF ReadForUpdate
<1> HIDE DEF u, row
<1>8. /\ call' \in [Calls -> Call]
      /\ call'[c].at = "write" /\ call'[c].req = r
      /\ call'[c].by = u /\ call'[c].row = row
      /\ \A d \in Calls \ {c} : call'[d] = call[d]
  BY <1>1, <1>3, <1>4, ProceedIs DEF IInv
<1>9. overlapped \subseteq overlapped' /\ overlapped' \subseteq UserIds
  BY <1>1, <1>6 DEF IInv, TypeOK
<1>10. InsertOK(c)' /\ WriteOK(c)'
  BY <1>1, <1>2, <1>3, <1>7, <1>8 DEF InsertOK, WriteOK, Rows
<1>11. Alone'
  <2> SUFFICES ASSUME NEW d \in Calls, NEW e \in Calls, d # e,
                      call'[d].at = "write", call'[e].at = "write",
                      call'[d].by = call'[e].by, call'[d].by \notin overlapped'
               PROVE  FALSE
    BY DEF Alone
  <2>1. CASE d # c /\ e # c
    BY <2>1, <1>8, <1>9 DEF IInv, Alone
  <2>2. \A f \in Calls \ {c} : call'[f].at = "write" /\ call'[f].by = u => u \in overlapped'
    BY <1>6, <1>8 DEF UpdatersOf
  <2> QED
    BY <2>1, <2>2, <1>8
<1> QED
  BY <1>7, <1>8, <1>9, <1>10, <1>11, TokensKept, TableUnchanged
-----------------------------------------------------------------------------
(* A step of one request that ends it and changes accounts.                *)
LEMMA Stored ==
    ASSUME IInv, NEW c \in Calls, NEW r \in Requests \cup {None}, Answer(c, r, "ok"),
           UNCHANGED overlapped, Kept,
           \A d \in Calls \ {c} :
               call[d].at = "write" /\ call[d].by \notin overlapped =>
                   /\ users'[call[d].by].email = users[call[d].by].email
                   /\ users'[call[d].by].secret = users[call[d].by].secret
    PROVE  /\ call' \in [Calls -> Call]
           /\ \A d \in Calls : InsertOK(d)' /\ WriteOK(d)'
           /\ Alone'
<1>1. /\ call' \in [Calls -> Call] /\ call'[c].at = "done"
      /\ \A d \in Calls \ {c} : call'[d] = call[d]
  BY AnswerIs DEF IInv, Results
<1>2. InsertOK(c)' /\ WriteOK(c)'
  BY <1>1 DEF InsertOK, WriteOK
<1>3. ASSUME NEW d \in Calls \ {c} PROVE InsertOK(d)' /\ WriteOK(d)'
  BY <1>1, <1>3, InsertKept, WriteKept DEF IInv
<1>4. Alone'
  BY <1>1, AloneKept DEF IInv
<1> QED
  BY <1>1, <1>2, <1>3, <1>4

LEMMA CreateUserInv ==
    ASSUME IInv, NEW c \in Calls, CreateUser(c)
    PROVE  IInv'
<1>1. call[c].at = "insert" /\ UNCHANGED <<tokens, overlapped>>
  BY DEF CreateUser
<1>2. /\ call[c].req \in Requests \cup {None}
      /\ call[c].by \in UserIds \cup {None}
  BY DEF IInv, TypeOK, Call
<1>3. CASE Answer(c, call[c].req, "error") /\ UNCHANGED <<users, appointer, expected>>
  BY <1>1, <1>2, <1>3, Answered, TokensKept DEF Results
<1>4. ASSUME NEW u \in UserIds \ Rows,
             ~Taken(call[c].row.email, u),
             users' = [users EXCEPT ![u] = call[c].row],
             expected' = [expected EXCEPT ![u] = call[c].row],
             appointer' = [appointer EXCEPT ![u] = call[c].by],
             Answer(c, call[c].req, "ok")
      PROVE  IInv'
  <2> DEFINE row == call[c].row
             by == call[c].by
  <2>1. row \in UserRow /\ (row.role \in StaffRoles => Supervises(by))
    BY <1>1 DEF IInv, InsertOK
  <2>2. row # None
    BY <2>1, RowFields
  <2>3. users[u] = None
    BY <1>4 DEF Rows
  <2> HIDE DEF row, by
  <2>4. /\ users' \in [UserIds -> UserRow \cup {None}]
        /\ users'[u] = row /\ \A v \in UserIds \ {u} : users'[v] = users[v]
    BY <1>4, <2>1 DEF IInv, TypeOK, row
  <2>5. /\ expected' \in [UserIds -> UserRow \cup {None}]
        /\ expected'[u] = row /\ \A v \in UserIds \ {u} : expected'[v] = expected[v]
    BY <1>4, <2>1 DEF IInv, TypeOK, row
  <2>6. /\ appointer' \in [UserIds -> UserIds \cup {None}]
        /\ appointer'[u] = by /\ \A v \in UserIds \ {u} : appointer'[v] = appointer[v]
    BY <1>2, <1>4 DEF IInv, TypeOK, by
  <2>7. Kept
    BY <2>3, <2>4 DEF Kept
  <2>8. \A d \in Calls \ {c} :
            call[d].at = "write" => /\ call[d].by \in UserIds \ {u}
                                    /\ users'[call[d].by] = users[call[d].by]
    BY <1>4, <2>4 DEF IInv, WriteOK, Rows
  <2>9. /\ call' \in [Calls -> Call]
        /\ \A d \in Calls : InsertOK(d)' /\ WriteOK(d)'
        /\ Alone'
    BY <1>1, <1>2, <1>4, <2>7, <2>8, Stored
  <2>10. Rows' = Rows \cup {u} /\ u \notin Rows
    BY <1>4, <2>2, <2>4 DEF Rows
  <2>11. TypeOK'
    BY <1>1, <2>4, <2>5, <2>6, <2>9 DEF IInv, TypeOK
  <2>12. EmailsIdentifyAccounts'
    <3>1. \A v \in Rows : users[v].email # row.email
      BY <1>4 DEF Taken, WithEmail, row
    <3> QED
      BY <2>4, <2>10, <3>1 DEF IInv, EmailsIdentifyAccounts, Rows
  <2>13. AuthorityIsGranted'
    <3>1. \A t \in tokens' : t.id \in Rows' /\ users'[t.id].role = t.role
      BY <1>1, <2>4, <2>10 DEF IInv, AuthorityIsGranted, Rows
    <3>2. row.role \in StaffRoles => by \in Rows' /\ users'[by].role = "supervisor"
      BY <2>1, <2>4, <2>10 DEF Supervises, Rows
    <3>3. ASSUME NEW v \in Rows, users'[v].role \in StaffRoles, Seeds[v] = None
          PROVE  appointer'[v] \in Rows' /\ users'[appointer'[v]].role = "supervisor"
      <4>1. v \in UserIds \ {u}
        BY <2>10 DEF Rows
      <4>2. users'[v] = users[v] /\ appointer'[v] = appointer[v]
        BY <4>1, <2>4, <2>6
      <4>3. appointer[v] \in Rows /\ users[appointer[v]].role = "supervisor"
        BY <3>3, <4>2 DEF IInv, AuthorityIsGranted
      <4> QED
        BY <4>2, <4>3, <2>4, <2>10 DEF Rows
    <3> QED
      BY <3>1, <3>2, <3>3, <2>4, <2>6, <2>10 DEF AuthorityIsGranted
  <2>14. AsIfOneStep'
    <3> SUFFICES ASSUME NEW v \in UserIds
                 PROVE  /\ v \notin overlapped' => users'[v] = expected'[v]
                        /\ v \in Rows' => /\ users'[v].wishes = expected'[v].wishes
                                          /\ users'[v].role = expected'[v].role
      BY DEF AsIfOneStep
    <3>1. CASE v = u
      BY <3>1, <2>4, <2>5
    <3>2. CASE v # u
      BY <3>2, <1>1, <2>4, <2>5, <2>10 DEF IInv, AsIfOneStep
    <3> QED
      BY <3>1, <3>2
  <2>15. Tracked'
    BY <2>2, <2>4, <2>5 DEF IInv, Tracked
  <2> QED
    BY <2>9, <2>11, <2>12, <2>13, <2>14, <2>15 DEF IInv
<1> QED
  BY <1>3, <1>4 DEF CreateUser
(* UpdateUser keeps the role and the wishes of the row in the table.       *)
LEMMA WrittenIs ==
    ASSUME NEW old \in UserRow, NEW new \in UserRow
    PROVE  /\ Written(old, new) \in UserRow
           /\ Written(old, new).email = new.email
           /\ Written(old, new).secret = new.secret
           /\ Written(old, new).role = old.role
           /\ Written(old, new).wishes = old.wishes
BY DEF Written, UserRow

LEMMA UpdateUserInv ==
    ASSUME IInv, NEW c \in Calls, UpdateUser(c)
    PROVE  IInv'
<1> DEFINE u == call[c].by
           row == call[c].row
           r == call[c].req
<1>1. /\ call[c].at = "write" /\ UNCHANGED <<appointer, overlapped>>
      /\ r \in Requests /\ r.op = "update"
      /\ u \in Rows /\ u \in UserIds
      /\ row \in UserRow /\ row.role = users[u].role
      /\ u \notin overlapped => Fresh(row, users[u], r)
  BY DEF UpdateUser, IInv, WriteOK, Rows
<1>2. CASE Answer(c, r, "error") /\ UNCHANGED <<users, tokens, expected>>
  BY <1>1, <1>2, Answered, TokensKept DEF Results
<1>3. CASE /\ ~Taken(row.email, u)
           /\ users' = [users EXCEPT ![u] = Written(@, row)]
           /\ expected' = [expected EXCEPT ![u] = Patched(@, r)]
           /\ tokens' = tokens \cup {TokenOf(u, row)}
           /\ Answer(c, r, "ok")
  <2>1. users[u] \in UserRow /\ expected[u] \in UserRow
    BY <1>1 DEF IInv, TypeOK, Tracked, Rows
  <2> DEFINE new == Written(users[u], row)
             due == Patched(expected[u], r)
  <2>2. /\ new \in UserRow /\ new # None
        /\ new.email = row.email /\ new.secret = row.secret
        /\ new.role = users[u].role /\ new.wishes = users[u].wishes
    BY <1>1, <2>1, WrittenIs, RowFields
  <2>3. /\ due \in UserRow /\ due # None
        /\ due.role = expected[u].role /\ due.wishes = expected[u].wishes
        /\ Fresh(due, expected[u], r)
    BY <1>1, <2>1, PatchedIs, RowFields
  <2>4. users' = [users EXCEPT ![u] = new] /\ expected' = [expected EXCEPT ![u] = due]
    BY <1>3
  <2>5. /\ TokenOf(u, row) \in Token
        /\ TokenOf(u, row).id = u /\ TokenOf(u, row).role = users[u].role
    BY <1>1, RowFields DEF TokenOf, Token
  <2>6. \A v \in Rows : v # u => users[v].email # row.email
    BY <1>3 DEF Taken, WithEmail
  <2>7. tokens' = tokens \cup {TokenOf(u, row)} /\ Answer(c, r, "ok")
    BY <1>3
  <2> HIDE DEF u, row, r, new, due
  <2>8. /\ users' \in [UserIds -> UserRow \cup {None}]
        /\ users'[u] = new /\ \A v \in UserIds \ {u} : users'[v] = users[v]
    BY <1>1, <2>2, <2>4 DEF IInv, TypeOK
  <2>9. /\ expected' \in [UserIds -> UserRow \cup {None}]
        /\ expected'[u] = due /\ \A v \in UserIds \ {u} : expected'[v] = expected[v]
    BY <1>1, <2>3, <2>4 DEF IInv, TypeOK
  <2>10. Kept
    BY <2>2, <2>8 DEF Kept
  <2>11. Rows' = Rows
    BY <1>1, <2>2, <2>8 DEF Rows
  <2>12. \A d \in Calls \ {c} :
            call[d].at = "write" /\ call[d].by \notin overlapped =>
                /\ users'[call[d].by].email = users[call[d].by].email
                /\ users'[call[d].by].secret = users[call[d].by].secret
    <3> SUFFICES ASSUME NEW d \in Calls \ {c}, call[d].at = "write",
                        call[d].by \notin overlapped
                 PROVE  call[d].by \in UserIds \ {u}
      BY <2>8
    <3>1. call[d].by \in UserIds
      BY DEF IInv, WriteOK, Rows
    <3>2. call[d].by # u
      BY <1>1 DEF IInv, Alone, u
    <3> QED
      BY <3>1, <3>2
  <2>13. /\ call' \in [Calls -> Call]
         /\ \A d \in Calls : InsertOK(d)' /\ WriteOK(d)'
         /\ Alone'
    BY <1>1, <2>7, <2>10, <2>12, Stored
  <2>14. TypeOK'
    BY <1>1, <2>5, <2>7, <2>8, <2>9, <2>13 DEF IInv, TypeOK
  <2>15. EmailsIdentifyAccounts'
    BY <2>2, <2>6, <2>8, <2>11 DEF IInv, EmailsIdentifyAccounts, Rows
  <2>16. AuthorityIsGranted'
    <3>1. \A v \in Rows : users'[v].role = users[v].role
      BY <2>10 DEF Kept, Rows
    <3>2. \A t \in tokens' : t.id \in Rows' /\ users'[t.id].role = t.role
      BY <1>1, <2>5, <2>7, <2>11, <3>1 DEF IInv, AuthorityIsGranted
    <3> QED
      BY <1>1, <2>11, <3>1, <3>2 DEF IInv, AuthorityIsGranted
  <2>17. AsIfOneStep'
    <3>1. users[u].wishes = expected[u].wishes /\ users[u].role = expected[u].role
      BY <1>1 DEF IInv, AsIfOneStep
    <3>2. u \notin overlapped => new = due
      <4> SUFFICES ASSUME u \notin overlapped PROVE new = due
        OBVIOUS
      <4>1. users[u] = expected[u]
        BY <1>1 DEF IInv, AsIfOneStep
      <4>2. new.email = due.email /\ new.secret = due.secret
        BY <1>1, <2>2, <2>3, <4>1 DEF Fresh
      <4>3. new.role = due.role /\ new.wishes = due.wishes
        BY <2>2, <2>3, <3>1
      <4>4. /\ new = [email |-> new.email, secret |-> new.secret, role |-> new.role,
                      wishes |-> new.wishes]
            /\ due = [email |-> due.email, secret |-> due.secret, role |-> due.role,
                      wishes |-> due.wishes]
        BY <2>2, <2>3, RowFields
      <4> QED
        BY <4>2, <4>3, <4>4
    <3> SUFFICES ASSUME NEW v \in UserIds
                 PROVE  /\ v \notin overlapped' => users'[v] = expected'[v]
                        /\ v \in Rows' => /\ users'[v].wishes = expected'[v].wishes
                                          /\ users'[v].role = expected'[v].role
      BY DEF AsIfOneStep
    <3>3. CASE v = u
      BY <3>1, <3>2, <3>3, <1>1, <2>2, <2>3, <2>8, <2>9
    <3>4. CASE v # u
      BY <3>4, <1>1, <2>8, <2>9, <2>11 DEF IInv, AsIfOneStep
    <3> QED
      BY <3>3, <3>4
  <2>18. Tracked'
    BY <2>2, <2>3, <2>8, <2>9 DEF IInv, Tracked
  <2> QED
    BY <2>13, <2>14, <2>15, <2>16, <2>17, <2>18 DEF IInv
<1> QED
  BY <1>2, <1>3 DEF UpdateUser

(* The row after its wishes are replaced.                                  *)
Wishing(row, wishes) ==
    [email |-> row.email, secret |-> row.secret, role |-> row.role, wishes |-> wishes]

LEMMA WishingIs ==
    ASSUME NEW row \in UserRow, NEW wishes \in Wishes
    PROVE  /\ Wishing(row, wishes) \in UserRow
           /\ Wishing(row, wishes).email = row.email
           /\ Wishing(row, wishes).secret = row.secret
           /\ Wishing(row, wishes).role = row.role
           /\ Wishing(row, wishes).wishes = wishes
BY RowFields DEF Wishing, UserRow

LEMMA WishesReplaced ==
    ASSUME NEW old \in UserRow, NEW wishes
    PROVE  [old EXCEPT !.wishes = wishes] = Wishing(old, wishes)
BY DEF Wishing, UserRow

LEMMA UpdateClientPreferencesInv ==
    ASSUME IInv, NEW c \in Calls, NEW r \in Requests, UpdateClientPreferences(c, r)
    PROVE  IInv'
<1> DEFINE u == r.user
<1>1. r.op = "wish" /\ UNCHANGED <<tokens, appointer, overlapped>>
  BY DEF UpdateClientPreferences, Asks
<1>2. u \in UserIds /\ r.patch \in Wishes
  BY <1>1, RequestFields
<1>3. CASE Answer(c, r, "error") /\ UNCHANGED <<users, expected>>
  BY <1>1, <1>3, Answered, TokensKept DEF Results
<1>4. CASE /\ u \in Rows
           /\ users' = [users EXCEPT ![u].wishes = Merged(@, r.patch)]
           /\ expected' = [expected EXCEPT ![u].wishes = Merged(@, r.patch)]
           /\ Answer(c, r, "ok")
  <2>1. users[u] \in UserRow /\ expected[u] \in UserRow
    BY <1>4 DEF IInv, TypeOK, Tracked, Rows
  <2>2. users[u].wishes = expected[u].wishes /\ users[u].role = expected[u].role
    BY <1>4, <1>2 DEF IInv, AsIfOneStep
  <2> DEFINE wishes == Merged(users[u].wishes, r.patch)
             new == Wishing(users[u], wishes)
             due == Wishing(expected[u], wishes)
  <2>3. wishes \in Wishes
    BY <1>2, <2>1, RowFields, MergedTyped
  <2>4. users' = [users EXCEPT ![u] = new] /\ expected' = [expected EXCEPT ![u] = due]
    <3>1. users \in [UserIds -> UserRow \cup {None}]
          /\ expected \in [UserIds -> UserRow \cup {None}]
      BY DEF IInv, TypeOK
    <3> DEFINE granted == Merged(expected[u].wishes, r.patch)
    <3> HIDE DEF u, wishes, granted
    <3>2. users' = [users EXCEPT ![u] = [users[u] EXCEPT !.wishes = wishes]]
      BY <1>4, <3>1 DEF wishes
    <3>3. expected' = [expected EXCEPT ![u] = [expected[u] EXCEPT !.wishes = granted]]
      BY <1>4, <3>1 DEF granted
    <3>4. granted = wishes
      BY <2>2 DEF granted, wishes
    <3>5. /\ [users[u] EXCEPT !.wishes = wishes] = Wishing(users[u], wishes)
          /\ [expected[u] EXCEPT !.wishes = wishes] = Wishing(expected[u], wishes)
      BY <2>1, WishesReplaced
    <3> QED
      BY <3>2, <3>3, <3>4, <3>5
  <2> HIDE DEF wishes
  <2>5. /\ new \in UserRow /\ new # None
        /\ new.email = users[u].email /\ new.secret = users[u].secret
        /\ new.role = users[u].role /\ new.wishes = wishes
    BY <2>1, <2>3, WishingIs, RowFields
  <2>6. /\ due \in UserRow /\ due # None
        /\ due.role = expected[u].role /\ due.wishes = wishes
    BY <2>1, <2>3, WishingIs, RowFields
  <2>7. users[u] = expected[u] => new = due
    OBVIOUS
  <2> HIDE DEF u, new, due
  <2>8. /\ users' \in [UserIds -> UserRow \cup {None}]
        /\ users'[u] = new /\ \A v \in UserIds \ {u} : users'[v] = users[v]
    BY <1>2, <2>4, <2>5 DEF IInv, TypeOK
  <2>9. /\ expected' \in [UserIds -> UserRow \cup {None}]
        /\ expected'[u] = due /\ \A v \in UserIds \ {u} : expected'[v] = expected[v]
    BY <1>2, <2>4, <2>6 DEF IInv, TypeOK
  <2>10. Kept
    BY <2>5, <2>8 DEF Kept
  <2>11. Rows' = Rows
    BY <1>2, <1>4, <2>5, <2>8 DEF Rows
  <2>12. \A d \in Calls \ {c} :
            call[d].at = "write" /\ call[d].by \notin overlapped =>
                /\ users'[call[d].by].email = users[call[d].by].email
                /\ users'[call[d].by].secret = users[call[d].by].secret
    BY <2>5, <2>8 DEF IInv, WriteOK, Rows
  <2>13. /\ call' \in [Calls -> Call]
         /\ \A d \in Calls : InsertOK(d)' /\ WriteOK(d)'
         /\ Alone'
    BY <1>1, <1>4, <2>10, <2>12, Stored
  <2>14. TypeOK'
    BY <1>1, <2>8, <2>9, <2>13 DEF IInv, TypeOK
  <2>15. EmailsIdentifyAccounts'
    <3>1. \A v \in Rows : v \in UserIds /\ users'[v].email = users[v].email
      BY <2>5, <2>8 DEF Rows
    <3> QED
      BY <3>1, <2>11 DEF IInv, EmailsIdentifyAccounts
  <2>16. AuthorityIsGranted'
    <3>1. \A v \in Rows : users'[v].role = users[v].role
      BY <2>10 DEF Kept, Rows
    <3> QED
      BY <1>1, <2>11, <3>1 DEF IInv, AuthorityIsGranted
  <2>17. AsIfOneStep'
    <3> SUFFICES ASSUME NEW v \in UserIds
                 PROVE  /\ v \notin overlapped' => users'[v] = expected'[v]
                        /\ v \in Rows' => /\ users'[v].wishes = expected'[v].wishes
                                          /\ users'[v].role = expected'[v].role
      BY DEF AsIfOneStep
    <3>1. CASE v = u
      BY <3>1, <1>1, <2>2, <2>5, <2>6, <2>7, <2>8, <2>9 DEF IInv, AsIfOneStep, u
    <3>2. CASE v # u
      BY <3>2, <1>1, <2>8, <2>9, <2>11 DEF IInv, AsIfOneStep
    <3> QED
      BY <3>1, <3>2
  <2>18. Tracked'
    BY <2>5, <2>6, <2>8, <2>9 DEF IInv, Tracked
  <2> QED
    BY <2>13, <2>14, <2>15, <2>16, <2>17, <2>18 DEF IInv
<1> QED
  BY <1>3, <1>4 DEF UpdateClientPreferences
-----------------------------------------------------------------------------
LEMMA StepInv == IInv /\ [Next]_vars => IInv'
<1> SUFFICES ASSUME IInv, [Next]_vars PROVE IInv'
  OBVIOUS
<1>1. CASE UNCHANGED vars
  BY <1>1 DEF vars, IInv, TypeOK, EmailsIdentifyAccounts, AuthorityIsGranted, AsIfOneStep,
              InsertOK, WriteOK, Supervises, Fresh, Alone, Tracked, Rows
<1>2. CASE Next
  <2> SUFFICES ASSUME NEW c \in Calls,
                      \/ \E r \in Requests :
                            \/ Register(c, r) \/ Login(c, r)
                            \/ UpdateClientPreferences(c, r)
                            \/ \E t \in tokens : Appoint(c, r, t) \/ ReadForUpdate(c, r, t)
                      \/ CreateUser(c) \/ UpdateUser(c) \/ Abandon(c)
               PROVE  IInv'
    BY <1>2 DEF Next
  <2>1. ASSUME NEW r \in Requests, Register(c, r) PROVE IInv'
    BY <2>1, RegisterInv
  <2>2. ASSUME NEW r \in Requests, Login(c, r) PROVE IInv'
    BY <2>2, LoginInv
  <2>3. ASSUME NEW r \in Requests, UpdateClientPreferences(c, r) PROVE IInv'
    BY <2>3, UpdateClientPreferencesInv
  <2>4. ASSUME NEW r \in Requests, NEW t \in tokens, Appoint(c, r, t) PROVE IInv'
    BY <2>4, AppointInv
  <2>5. ASSUME NEW r \in Requests, NEW t \in tokens, ReadForUpdate(c, r, t) PROVE IInv'
    BY <2>5, ReadForUpdateInv
  <2>6. CASE CreateUser(c)
    BY <2>6, CreateUserInv
  <2>7. CASE UpdateUser(c)
    BY <2>7, UpdateUserInv
  <2>8. CASE Abandon(c)
    BY <2>8, AbandonInv
  <2> QED
    BY <2>1, <2>2, <2>3, <2>4, <2>5, <2>6, <2>7, <2>8
<1> QED
  BY <1>1, <1>2

THEOREM Invariant == Spec => []IInv
BY InitInv, StepInv, PTL DEF Spec

(* Rows, tokens and requests in flight keep their types.                   *)
THEOREM AccountsTyped == Spec => []TypeOK
<1>1. IInv => TypeOK
  BY DEF IInv
<1> QED
  BY <1>1, Invariant, PTL

(* However registrations, appointments and profile updates interleave, no  *)
(* two accounts of the users table have one e-mail.                        *)
THEOREM EmailsUnique == Spec => []EmailsIdentifyAccounts
<1>1. IInv => EmailsIdentifyAccounts
  BY DEF IInv
<1> QED
  BY <1>1, Invariant, PTL

(* Every token of handler/auth.go tells the role its account has, and no   *)
(* account becomes one of staff but by the token of a supervisor.          *)
THEOREM AuthorityGranted == Spec => []AuthorityIsGranted
<1>1. IInv => AuthorityIsGranted
  BY DEF IInv
<1> QED
  BY <1>1, Invariant, PTL

(* The profile update, which reads and writes in two statements, loses     *)
(* nothing but what another profile update of the account wrote meanwhile. *)
THEOREM UpdatesAsOneStep == Spec => []AsIfOneStep
<1>1. IInv => AsIfOneStep
  BY DEF IInv
<1> QED
  BY <1>1, Invariant, PTL
-----------------------------------------------------------------------------
Working == {"insert", "commit"}

Succeeded(p) ==
    policies[p].to # Null =>
        /\ policies[p].to > policies[p].from
        /\ \E q \in PolicyRows : policies[q].from = policies[p].to

Successors == \A p \in PolicyRows : Succeeded(p)

Versions == \A p, q \in PolicyRows : policies[p].version = policies[q].version => p = q

Holds(c) ==
    /\ creation[c].at \in {"close"} \cup Working => creation[c].from \in Instants
    /\ creation[c].seen \subseteq PolicyRows
    /\ creation[c].at = "commit" => creation[c].version # 0
    /\ creation[c].at \notin Working => creation[c].closing = {}
    /\ \A p \in creation[c].closing :
          /\ p \in PolicyRows /\ policies[p].to = Null
          /\ policies[p].from < creation[c].from

Locks ==
    \A c, d \in Creations : c # d => creation[c].closing \cap creation[d].closing = {}

PoliciesInv ==
    /\ PoliciesTypeOK
    /\ Successors /\ Versions
    /\ \A c \in Creations : Holds(c)
    /\ Locks

-----------------------------------------------------------------------------
(* A row is a policy; a policy is made of its fields.                      *)
LEMMA RowType ==
    ASSUME PoliciesTypeOK, NEW p \in PolicyRows
    PROVE  /\ p \in PolicyIds
           /\ policies[p] \in Policy
           /\ policies[p].from \in Instants /\ policies[p].from \in Nat
           /\ policies[p].to \in Instants \cup {Null}
           /\ policies[p].version \in Nat
           /\ policies[p].to # Null => policies[p].to \in Nat
<1>1. p \in PolicyIds /\ policies[p] # Null
  BY DEF PolicyRows
<1>2. policies[p] \in Policy
  BY <1>1 DEF PoliciesTypeOK
<1> QED
  BY <1>1, <1>2, PolicyAssumption DEF Policy

LEMMA PolicyInitInv == PolicyInit => PoliciesInv
<1> SUFFICES ASSUME PolicyInit PROVE PoliciesInv
  OBVIOUS
<1>1. PolicyRows = {}
  BY DEF PolicyInit, PolicyRows
<1>2. NotBegun \in Creation
  BY DEF NotBegun, Creation, Steps
<1>3. PoliciesTypeOK
  BY <1>2 DEF PolicyInit, PoliciesTypeOK
<1>4. \A c \in Creations : creation[c] = NotBegun
  BY DEF PolicyInit
<1>5. \A c \in Creations : Holds(c)
  BY <1>4 DEF Holds, NotBegun, Working
<1>6. Locks
  BY <1>4 DEF Locks, NotBegun
<1> QED
  BY <1>1, <1>3, <1>5, <1>6 DEF PoliciesInv, Successors, Versions

-----------------------------------------------------------------------------
(* A step that leaves the table alone and changes one transaction keeps    *)
(* the invariant if the transaction's new record is sound.                 *)
LEMMA LocalStep ==
    ASSUME PoliciesInv, UNCHANGED policies, NEW c \in Creations, NEW k \in Creation,
           creation' = [creation EXCEPT ![c] = k],
           k.at \in {"close"} \cup Working => k.from \in Instants,
           k.seen \subseteq PolicyRows,
           k.at = "commit" => k.version # 0,
           k.at \notin Working => k.closing = {},
           \A p \in k.closing : /\ p \in PolicyRows
                                /\ policies[p].to = Null
                                /\ policies[p].from < k.from,
           \A d \in Creations \ {c} : creation[d].closing \cap k.closing = {}
    PROVE  PoliciesInv'
<1>1. creation \in [Creations -> Creation] /\ creation' \in [Creations -> Creation]
  BY DEF PoliciesInv, PoliciesTypeOK
<1>2. creation'[c] = k /\ \A d \in Creations \ {c} : creation'[d] = creation[d]
  BY <1>1
<1>3. PolicyRows' = PolicyRows
  BY DEF PolicyRows
<1>4. PoliciesTypeOK'
  BY <1>1 DEF PoliciesInv, PoliciesTypeOK
<1>5. Successors' /\ Versions'
  BY <1>3 DEF PoliciesInv, Successors, Versions, Succeeded
<1>6. ASSUME NEW d \in Creations PROVE Holds(d)'
  <2>1. CASE d = c
    BY <1>2, <1>3, <2>1 DEF Holds
  <2>2. CASE d # c
    <3>1. Holds(d)
      BY DEF PoliciesInv
    <3> QED
      BY <1>2, <1>3, <2>2, <3>1 DEF Holds
  <2> QED
    BY <2>1, <2>2
<1>7. Locks'
  BY <1>2 DEF PoliciesInv, Locks
<1> QED
  BY <1>4, <1>5, <1>6, <1>7 DEF PoliciesInv

LEMMA BeginStep ==
    ASSUME PoliciesInv, NEW c \in Creations, NEW t \in Instants, Begin(c, t)
    PROVE  PoliciesInv'
<1> DEFINE k == [NotBegun EXCEPT !.at = "close", !.from = t, !.seen = PolicyRows]
<1>1. NotBegun \in Creation /\ NotBegun.closing = {}
  BY DEF NotBegun, Creation, Steps
<1>2. PolicyRows \subseteq PolicyIds
  BY DEF PolicyRows
<1>3. k \in Creation
  BY <1>1, <1>2 DEF Creation, Steps
<1>4. creation' = [creation EXCEPT ![c] = k] /\ UNCHANGED policies
  BY DEF Begin
<1>5. k.at = "close" /\ k.from = t /\ k.seen = PolicyRows /\ k.closing = {}
  BY <1>1 DEF Creation
<1> HIDE DEF k
<1> QED
  BY <1>3, <1>4, <1>5, LocalStep DEF Working

LEMMA CloseStep ==
    ASSUME PoliciesInv, NEW c \in Creations, Close(c)
    PROVE  PoliciesInv'
<1> DEFINE wanted == {p \in creation[c].seen : Closable(policies[p], creation[c].from)}
           k == [creation[c] EXCEPT !.at = "insert", !.seen = {}, !.closing = wanted]
<1>1. creation[c] \in Creation /\ Holds(c)
  BY DEF PoliciesInv, PoliciesTypeOK
<1>2. creation[c].at = "close" /\ creation[c].from \in Instants /\ creation[c].seen \subseteq PolicyRows
  BY <1>1 DEF Close, Holds
<1>3. wanted \subseteq PolicyRows /\ PolicyRows \subseteq PolicyIds
  BY <1>2 DEF PolicyRows
<1>4. /\ k.at = "insert" /\ k.from = creation[c].from /\ k.seen = {} /\ k.closing = wanted
      /\ k.version = creation[c].version
  BY <1>1 DEF Creation
<1>5. k \in Creation
  BY <1>1, <1>3 DEF Creation, Steps
<1>6. creation' = [creation EXCEPT ![c] = k] /\ UNCHANGED policies
  BY DEF Close
<1>7. \A d \in Creations \ {c} : creation[d].closing \cap wanted = {}
  BY DEF Close
<1>8. \A p \in wanted : p \in PolicyRows /\ policies[p].to = Null /\ policies[p].from < creation[c].from
  BY <1>3 DEF Closable
<1> HIDE DEF wanted, k
<1> QED
  BY <1>2, <1>4, <1>5, <1>6, <1>7, <1>8, LocalStep DEF Working

LEMMA NumberStep ==
    ASSUME PoliciesInv, NEW c \in Creations, Number(c)
    PROVE  PoliciesInv'
<1>1. creation[c] \in Creation /\ Holds(c)
  BY DEF PoliciesInv, PoliciesTypeOK
<1>2. PICK v \in {policies[p].version : p \in PolicyRows} \cup {0} :
         creation' = [creation EXCEPT ![c] = [creation[c] EXCEPT !.at = "commit", !.version = v + 1]]
  BY DEF Number
<1>3. creation[c].at = "insert" /\ UNCHANGED policies
  BY DEF Number
<1>4. v \in Nat
  BY RowType DEF PoliciesInv
<1> DEFINE k == [creation[c] EXCEPT !.at = "commit", !.version = v + 1]
<1>5. /\ k.at = "commit" /\ k.from = creation[c].from /\ k.seen = creation[c].seen
      /\ k.closing = creation[c].closing /\ k.version = v + 1
  BY <1>1 DEF Creation
<1>6. k \in Creation
  <2>1. v + 1 \in Nat
    BY <1>4
  <2> QED
    BY <1>1, <2>1 DEF Creation, Steps
<1>7. \A d \in Creations \ {c} : creation[d].closing \cap creation[c].closing = {}
  BY DEF PoliciesInv, Locks
<1>8. v + 1 # 0
  BY <1>4
<1>9. creation[c].from \in Instants
  BY <1>1, <1>3 DEF Holds, Working
<1>10. creation' = [creation EXCEPT ![c] = k]
  BY <1>2
<1> HIDE DEF k
<1> QED
  BY <1>1, <1>3, <1>5, <1>6, <1>7, <1>8, <1>9, <1>10, LocalStep DEF Working, Holds

LEMMA FailStep ==
    ASSUME PoliciesInv, NEW c \in Creations, Fail(c)
    PROVE  PoliciesInv'
<1>1. Over = [at |-> "done", from |-> Null, seen |-> {}, closing |-> {}, version |-> 0]
  BY DEF Over, NotBegun
<1>2. Over \in Creation
  BY <1>1 DEF Creation, Steps
<1>3. creation' = [creation EXCEPT ![c] = Over] /\ UNCHANGED policies
  BY DEF Fail, RolledBack
<1> QED
  BY <1>1, <1>2, <1>3, LocalStep DEF Working

(***************************************************************************)
(* A commit: what it closes gets the new policy as successor, and what the *)
(* others are about to close is untouched, because it is locked.           *)
(***************************************************************************)
LEMMA CommitStep ==
    ASSUME PoliciesInv, NEW c \in Creations, Commit(c)
    PROVE  PoliciesInv'
<1> DEFINE ps == creation[c].closing
           t == creation[c].from
           v == creation[c].version
<1>1. creation[c] \in Creation /\ Holds(c) /\ creation[c].at = "commit"
  BY DEF PoliciesInv, PoliciesTypeOK, Commit
<1>2. t \in Instants /\ t \in Nat /\ v \in Nat \ {0} /\ t # Null
  BY <1>1, PolicyAssumption DEF Holds, Creation, Working
<1>3. PICK n \in PolicyIds \ PolicyRows :
         policies' = [Closed(policies, ps, t) EXCEPT
                         ![n] = [from |-> t, to |-> Null, version |-> v]]
  BY DEF Commit
<1>4. creation' = [creation EXCEPT ![c] = Over] /\ ~VersionTaken(v)
  BY DEF Commit
<1>5. Over = [at |-> "done", from |-> Null, seen |-> {}, closing |-> {}, version |-> 0]
  BY DEF Over, NotBegun
<1>6. policies[n] = Null /\ n \notin ps
  BY <1>1 DEF PolicyRows, Holds
<1>7. ps \subseteq PolicyRows
  BY <1>1 DEF Holds
<1>8. /\ policies' \in [PolicyIds -> Policy \cup {Null}]
      /\ policies'[n] = [from |-> t, to |-> Null, version |-> v]
      /\ \A p \in ps : /\ policies'[p] \in Policy
                        /\ policies'[p].from = policies[p].from
                        /\ policies'[p].to = t
                        /\ policies'[p].version = policies[p].version
      /\ \A p \in PolicyIds \ (ps \cup {n}) : policies'[p] = policies[p]
  <2>1. \A p \in ps : p \in PolicyIds /\ [from |-> policies[p].from, to |-> t,
                            version |-> policies[p].version] \in Policy
    BY <1>2, <1>7, RowType DEF PoliciesInv, Policy
  <2>2. [from |-> t, to |-> Null, version |-> v] \in Policy
    BY <1>2 DEF Policy
  <2>3. policies \in [PolicyIds -> Policy \cup {Null}]
    BY DEF PoliciesInv, PoliciesTypeOK
  <2>4. Closed(policies, ps, t) \in [PolicyIds -> Policy \cup {Null}]
    BY <2>1, <2>3 DEF Closed
  <2>5. \A p \in PolicyIds \ {n} : policies'[p] = Closed(policies, ps, t)[p]
    BY <1>3, <2>4
  <2>6. \A p \in ps : policies'[p] = [from |-> policies[p].from, to |-> t,
                                     version |-> policies[p].version]
    BY <1>6, <2>1, <2>5 DEF Closed
  <2>7. \A p \in PolicyIds \ (ps \cup {n}) : policies'[p] = policies[p]
    BY <2>5 DEF Closed
  <2>8. policies' \in [PolicyIds -> Policy \cup {Null}]
        /\ policies'[n] = [from |-> t, to |-> Null, version |-> v]
    BY <1>3, <2>2, <2>4
  <2>9. \A p \in ps : /\ policies'[p] \in Policy
                      /\ policies'[p].from = policies[p].from
                      /\ policies'[p].to = t
                      /\ policies'[p].version = policies[p].version
    <3> SUFFICES ASSUME NEW p \in ps
                 PROVE  /\ policies'[p] \in Policy
                        /\ policies'[p].from = policies[p].from
                        /\ policies'[p].to = t
                        /\ policies'[p].version = policies[p].version
      OBVIOUS
    <3> DEFINE row == [from |-> policies[p].from, to |-> t, version |-> policies[p].version]
    <3>1. policies'[p] = row
      BY <2>6
    <3>2. row \in Policy
      BY <2>1
    <3>3. row.from = policies[p].from /\ row.to = t /\ row.version = policies[p].version
      OBVIOUS
    <3> HIDE DEF row
    <3> QED
      BY <3>1, <3>2, <3>3
  <2> QED
    BY <2>7, <2>8, <2>9
<1>9. PolicyRows' = PolicyRows \cup {n}
  <2>1. \A p \in ps : policies'[p] # Null /\ policies[p] # Null
    BY <1>7, <1>8, NonePolicyAssumption DEF PolicyRows
  <2>2. policies'[n] # Null
    BY <1>2, <1>8, NonePolicyAssumption DEF Policy
  <2> QED
    BY <1>7, <1>8, <2>1, <2>2 DEF PolicyRows
<1>10. \A p \in PolicyRows :
         /\ policies'[p].from = policies[p].from
         /\ policies'[p].version = policies[p].version
         /\ p \notin ps => policies'[p] = policies[p]
  <2> SUFFICES ASSUME NEW p \in PolicyRows
               PROVE  /\ policies'[p].from = policies[p].from
                      /\ policies'[p].version = policies[p].version
                      /\ p \notin ps => policies'[p] = policies[p]
    OBVIOUS
  <2>1. p \in PolicyIds /\ p # n
    BY DEF PolicyRows
  <2>2. CASE p \in ps
    BY <1>8, <2>2
  <2>3. CASE p \notin ps
    BY <1>8, <2>1, <2>3
  <2> QED
    BY <2>2, <2>3
<1>11. creation \in [Creations -> Creation] /\ Over \in Creation
  BY <1>5 DEF PoliciesInv, PoliciesTypeOK, Creation, Steps
<1>12. creation'[c] = Over /\ \A d \in Creations \ {c} : creation'[d] = creation[d]
  BY <1>4, <1>11
<1>13. PoliciesTypeOK'
  BY <1>4, <1>8, <1>11 DEF PoliciesTypeOK
<1>14. Successors'
  <2> SUFFICES ASSUME NEW p \in PolicyRows', policies'[p].to # Null
               PROVE  /\ policies'[p].to > policies'[p].from
                      /\ \E q \in PolicyRows' : policies'[q].from = policies'[p].to
    BY DEF Successors, Succeeded
  <2>1. p # n /\ p \in PolicyRows
    BY <1>8, <1>9
  <2>2. CASE p \in ps
    <3>1. policies'[p].to = t /\ policies'[p].from = policies[p].from
      BY <1>8, <2>2
    <3>2. policies[p].from < t /\ policies[p].from \in Nat
      BY <1>1, <2>1, <2>2, RowType DEF PoliciesInv, Holds
    <3>3. policies'[n].from = t /\ n \in PolicyRows'
      BY <1>8, <1>9
    <3> QED
      BY <1>2, <3>1, <3>2, <3>3
  <2>3. CASE p \notin ps
    <3>1. policies'[p] = policies[p]
      BY <1>10, <2>1, <2>3
    <3>2. policies[p].to > policies[p].from
      BY <2>1, <3>1 DEF PoliciesInv, Successors, Succeeded
    <3>3. PICK q \in PolicyRows : policies[q].from = policies[p].to
      BY <2>1, <3>1 DEF PoliciesInv, Successors, Succeeded
    <3>4. q \in PolicyRows' /\ policies'[q].from = policies[q].from
      BY <1>9, <1>10
    <3> QED
      BY <3>1, <3>2, <3>3, <3>4
  <2> QED
    BY <2>2, <2>3
<1>15. Versions'
  <2>1. \A p \in PolicyRows : policies'[p].version # policies'[n].version
    BY <1>4, <1>8, <1>10 DEF VersionTaken
  <2> QED
    BY <1>9, <1>10, <2>1 DEF PoliciesInv, Versions
<1>16. ASSUME NEW d \in Creations PROVE Holds(d)'
  <2>1. CASE d = c
    BY <1>5, <1>12, <2>1 DEF Holds, Working
  <2>2. CASE d # c
    <3>1. Holds(d) /\ creation'[d] = creation[d]
      BY <1>12, <2>2 DEF PoliciesInv
    <3>2. creation[d].closing \cap ps = {}
      BY <2>2 DEF PoliciesInv, Locks
    <3>3. \A p \in creation[d].closing : p \in PolicyRows /\ policies'[p] = policies[p]
      BY <1>10, <3>1, <3>2 DEF Holds
    <3> QED
      BY <1>9, <3>1, <3>3 DEF Holds
  <2> QED
    BY <2>1, <2>2
<1>17. Locks'
  BY <1>5, <1>12 DEF PoliciesInv, Locks
<1> QED
  BY <1>13, <1>14, <1>15, <1>16, <1>17 DEF PoliciesInv

-----------------------------------------------------------------------------
LEMMA PolicyStepInv == PoliciesInv /\ [PolicyNext]_policyVars => PoliciesInv'
<1> SUFFICES ASSUME PoliciesInv, [PolicyNext]_policyVars PROVE PoliciesInv'
  OBVIOUS
<1>1. CASE UNCHANGED policyVars
  BY <1>1 DEF policyVars, PoliciesInv, PoliciesTypeOK, Successors, Succeeded, Versions, Holds, Locks, PolicyRows
<1>2. CASE PolicyNext
  BY <1>2, BeginStep, CloseStep, NumberStep, CommitStep, FailStep DEF PolicyNext
<1> QED
  BY <1>1, <1>2

THEOREM PoliciesInvariance == PolicySpec => []PoliciesInv
BY PolicyInitInv, PolicyStepInv, PTL DEF PolicySpec

(***************************************************************************)
(* The latest policy is in force, for if it had ended by then, a successor *)
(* would have started since; and whatever else is in force is earlier.     *)
(***************************************************************************)
LEMMA LatestIsActive ==
    ASSUME PoliciesInv, NEW t \in Instants, NEW p \in Latest(t)
    PROVE  Active(t) = {p}
<1>1. p \in PolicyRows /\ policies[p].from <= t
  BY DEF Latest
<1>2. t \in Nat
  BY PolicyAssumption
<1>3. InForce(p, t)
  <2> SUFFICES ASSUME ~InForce(p, t) PROVE FALSE
    OBVIOUS
  <2>1. policies[p].to # Null /\ ~(policies[p].to > t)
    BY <1>1 DEF InForce
  <2>2. policies[p].to > policies[p].from
    BY <1>1, <2>1 DEF PoliciesInv, Successors, Succeeded
  <2>3. PICK q \in PolicyRows : policies[q].from = policies[p].to
    BY <1>1, <2>1 DEF PoliciesInv, Successors, Succeeded
  <2>4. policies[p].to \in Nat
    BY <1>1, <2>1, RowType DEF PoliciesInv
  <2>5. policies[q].from <= t /\ Later(q, p)
    BY <1>2, <2>1, <2>2, <2>3, <2>4 DEF Later
  <2> QED
    BY <2>5 DEF Latest
<1>4. p \in Active(t)
  BY <1>1, <1>3 DEF Active, Latest, InForce
<1>5. ASSUME NEW q \in Active(t) PROVE q = p
  <2>1. q \in PolicyRows /\ InForce(q, t) /\ ~Later(p, q)
    BY <1>1, <1>3, <1>5 DEF Active
  <2>2. ~Later(q, p)
    BY <2>1 DEF Latest, InForce
  <2>3. /\ policies[p].from \in Nat /\ policies[p].version \in Nat
        /\ policies[q].from \in Nat /\ policies[q].version \in Nat
    BY <1>1, <2>1, RowType DEF PoliciesInv
  <2>4. policies[p].version = policies[q].version
    BY <2>1, <2>2, <2>3 DEF Later
  <2> QED
    BY <1>1, <2>1, <2>4 DEF PoliciesInv, Versions
<1> QED
  BY <1>4, <1>5

(***************************************************************************)
(* For every set of instants and any number of concurrent creations, the   *)
(* policy that started last governs, alone (GetActiveMax over the table    *)
(* that Create leaves).                                                    *)
(***************************************************************************)
THEOREM LatestPolicyRules == PolicySpec => []LatestRules
<1>1. PoliciesInv => LatestRules
  BY LatestIsActive DEF LatestRules
<1> QED
  BY <1>1, PoliciesInvariance, PTL

(***************************************************************************)
(* A step keeps every policy, and leaves those that are closed as they     *)
(* are, whichever transactions overlap.                                    *)
(***************************************************************************)
THEOREM PeriodsAreFinal == PolicySpec => PeriodsStand
<1> DEFINE Stand ==
         \A p \in PolicyRows : /\ policies'[p].from = policies[p].from
                               /\ policies[p].to # Null => policies'[p] = policies[p]
<1>1. ASSUME PoliciesInv, PolicyNext PROVE Stand
  <2>1. CASE UNCHANGED policies
    BY <2>1
  <2>2. ASSUME NEW c \in Creations, Commit(c) PROVE Stand
    <3>1. PICK n \in PolicyIds \ PolicyRows :
             policies' = [Closed(policies, creation[c].closing, creation[c].from) EXCEPT
                ![n] = [from |-> creation[c].from, to |-> Null, version |-> creation[c].version]]
      BY <2>2 DEF Commit
    <3>2. \A p \in creation[c].closing : policies[p].to = Null
      BY <1>1 DEF PoliciesInv, Holds
    <3>3. SUFFICES ASSUME NEW p \in PolicyRows
                   PROVE  /\ policies'[p].from = policies[p].from
                          /\ policies[p].to # Null => policies'[p] = policies[p]
      OBVIOUS
    <3>4. p \in PolicyIds /\ p # n
      BY <3>1 DEF PolicyRows
    <3>5. policies'[p] = Closed(policies, creation[c].closing, creation[c].from)[p]
      BY <3>1, <3>4 DEF Closed
    <3> QED
      BY <3>2, <3>4, <3>5 DEF Closed
  <2> QED
    BY <1>1, <2>1, <2>2 DEF PolicyNext, Begin, Close, Number, Fail, RolledBack
<1>2. PoliciesInv /\ [PolicyNext]_policyVars => [Stand]_policyVars
  BY <1>1
<1> QED
  BY <1>2, PoliciesInvariance, PTL DEF PolicySpec, PeriodsStand
=============================================================================
