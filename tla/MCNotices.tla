----------------------------- MODULE MCNotices ------------------------------
(***************************************************************************)
(* A small instance of Notices: one stage that may be moved between two    *)
(* buildings, deals of two clients in one apartment, and reports that      *)
(* differ in what the fingerprint and the notice keep.                     *)
(***************************************************************************)
EXTENDS Notices, TLC

CONSTANTS tower1, tower2, flat, deal1, deal2, anna

MCTrimmed == [r \in {"", "rain", " rain"} |-> IF r = " rain" THEN "rain" ELSE r]

Delayed == [status |-> "in_progress", risk |-> "high", days |-> 3, reason |-> "rain"]

(* The same delay with a space before its reason, and a return to plan.    *)
MCReports == {Delayed, [Delayed EXCEPT !.reason = " rain"],
              [status |-> "in_progress", risk |-> "low", days |-> None, reason |-> ""]}

Symmetry == Permutations(Calls) \cup Permutations(Deals)
=============================================================================
