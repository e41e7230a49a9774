----------------------------- MODULE MCAccounts -----------------------------
(***************************************************************************)
(* A small instance of Accounts: a supervisor and a client from the seed,  *)
(* two ids to give out, and requests that meet in e-mails and passwords.   *)
(***************************************************************************)
EXTENDS Accounts, TLC

CONSTANTS sofia, anna, u1, u2, mailS, mailA, mailN, mailM, old, new, budget, district, wide

Row(email, role) ==
    [email |-> email, secret |-> old, role |-> role, wishes |-> [k \in Keys |-> None]]

MCSeeds == [u \in UserIds |-> CASE u = sofia -> Row(mailS, "supervisor")
                                [] u = anna -> Row(mailA, "user")
                                [] OTHER -> None]

MCRequests ==
    [op : {"register"}, email : {mailA, mailN}, secret : {old}]
    \cup [op : {"appoint"}, email : {mailN, mailM}, secret : {old}, role : {None, "user"}]
    \cup {[op |-> "login", email |-> mailA, secret |-> s, staff |-> s = new] : s \in {old, new}}
    \cup [op : {"login"}, email : {mailS, mailN}, secret : {old}, staff : {TRUE}]
    \cup {[op |-> "update", email |-> mailN, secret |-> None],
          [op |-> "update", email |-> None, secret |-> new]}
    \cup [op : {"wish"}, user : {anna, u1},
           patch : {[k \in Keys |-> IF k = one THEN wide ELSE None] : one \in Keys}]

Symmetry == Permutations(Calls)
=============================================================================
