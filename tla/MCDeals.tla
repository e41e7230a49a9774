------------------------------ MODULE MCDeals -------------------------------
(***************************************************************************)
(* Small instances of Deals: clients, two managers and a supervisor around *)
(* one apartment.                                                          *)
(***************************************************************************)
EXTENDS Deals, TLC

CONSTANTS client, rival,   \* clients
          ana, boris,      \* managers
          sofia,           \* a supervisor
          flat

MCRole == [u \in Users |-> IF u \in {client, rival} THEN "user"
                           ELSE IF u = sofia THEN "supervisor" ELSE "manager"]

(* Enough chat for a manager to serve the client, or to lose him.          *)
TakeRequests ==
    [op : {"open"}, actor : {client}, apartment : {flat}, greet : {FALSE}]
    \cup [op : {"take"}, actor : {ana, boris}, session : SessionIds]

Creates(actors, chats, percents) ==
    [op : {"create"}, actor : actors, client : {client}, apartment : {flat},
     session : chats, discount : percents]

Updates(actors, statuses, percents) ==
    [op : {"update"}, actor : actors, deal : DealIds, status : statuses, discount : percents]

(* A deal by its manager or the supervisor, moved by all three roles.  The *)
(* discounts straddle a policy, and one is finer than the column.          *)
DealingRequests ==
    Creates({ana}, SessionIds \cup {None}, {2996})
    \cup Updates({ana}, {"pending", "completed"}, {None, 3500})
    \cup Updates({client, rival}, {"contract", "cancelled"}, {None})
    \cup Updates({client}, {"completed", "contract"}, {4004})

CompetingRequests == Creates({sofia}, {None}, {0})

OneRow == [price : {10000}, status : {"free"}]
TwoRows == [price : {10000, 20001}, status : {"free", "sold"}]

Symmetry == Permutations(ChatCalls) \cup Permutations(DealCalls) \cup
            Permutations(SessionIds) \cup Permutations(MessageIds) \cup Permutations(DealIds)
=============================================================================
