---------------------------- MODULE MCAgentChat ----------------------------
(***************************************************************************)
(* Small instances of AgentChat: a manager writes in two sessions, about   *)
(* two deals, and may be asked for the discount.                           *)
(***************************************************************************)
EXTENDS AgentChat, TLC

CONSTANTS ana, s1, s2, d1, d2

MCCallIds == Handlings \X {"create", "approval"}

MCPercents == {7000, 7125}

Text(session, deal, mentions, written) ==
    [user |-> ana, session |-> session, deal |-> deal, mentions |-> mentions,
     written |-> written]

(* "an offer with a discount", "an offer", "an offer at 7 %", "7 %",       *)
(* "7.125 %", and the first again in another session.                      *)
Conversation ==
    {Text(s1, d1, TRUE, {}), Text(s1, d1, FALSE, {}), Text(s1, d2, TRUE, {7000}),
     Text(s1, None, FALSE, {7000}), Text(s1, d1, FALSE, {7125}), Text(s2, d2, TRUE, {})}

OneMessage == {Text(s1, d1, TRUE, {7000})}

Symmetry == Permutations(Requests)
=============================================================================
