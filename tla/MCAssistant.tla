----------------------------- MODULE MCAssistant ----------------------------
(***************************************************************************)
(* A small instance of Assistant: two managers and a supervisor around the *)
(* session of one client, who asks about an apartment or in general; the   *)
(* client and the staff turn to the assistant.                             *)
(***************************************************************************)
EXTENDS Assistant, TLC

CONSTANTS client, ana, boris, sofia, flat, d1

MCRole == [u \in Users |-> IF u = client THEN "user"
                           ELSE IF u = sofia THEN "supervisor" ELSE "manager"]

Opens(actor, topic, greet) ==
    [op |-> "open", actor |-> actor, apartment |-> topic, greet |-> greet]

MCRequests ==
    {Opens(client, flat, FALSE), Opens(client, None, TRUE), Opens(client, None, FALSE)}
    \cup [op : {"take"}, actor : {ana, boris}, session : SessionIds]
    \cup [op : {"close"}, actor : {sofia}, session : SessionIds]
    \cup [op : {"reject"}, actor : {ana}, session : SessionIds, reason : BOOLEAN]
    \cup [op : {"send"}, actor : {ana}, session : SessionIds, text : BOOLEAN]
    \cup [op : {"read", "hide"}, actor : {client}, session : SessionIds]

MCAskRequests ==
    [op : {"chat"}, actor : {client, ana}, session : SessionIds, sound : {TRUE}]
    \cup [op : {"analyze"}, actor : {ana}, deal : Deals, sound : BOOLEAN]

MCDealRows == [employee : {ana}, session : SessionIds]

Symmetry == Permutations(ChatCalls) \cup Permutations(SessionIds)
            \cup Permutations(MessageIds) \cup Permutations(Asks)
=============================================================================
