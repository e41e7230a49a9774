-------------------------- MODULE DiscountPolicies --------------------------
(***************************************************************************)
(* The discount policies of one building and role, as                      *)
(* repository/discount_policy.go keeps them: Create is a transaction that  *)
(* closes the open policies which started earlier and inserts the new one, *)
(* back-dated or not; GetActiveMax picks the policy in force at an         *)
(* instant.  Transactions run at READ COMMITTED, so two of them interleave *)
(* by statement: an UPDATE sees the rows of its snapshot, waits for those  *)
(* another transaction has changed, and looks at them again.  Rows of      *)
(* other buildings and roles never meet these statements.                  *)
(***************************************************************************)
EXTENDS Integers, FiniteSets

CONSTANTS
    PolicyIds, Creations,
    Instants,      \* when policies may start, and limits be asked for
    Null

ASSUME PolicyAssumption ==
    /\ Instants \subseteq Nat
    /\ Null \notin Nat

Policy == [from : Instants, to : Instants \cup {Null}, version : Nat \ {0}]

ASSUME NonePolicyAssumption == Null \notin Policy

VARIABLES
    policies,    \* committed rows: policies[p], or Null
    creation     \* creation[c]: where a creation stands

policyVars == <<policies, creation>>

Steps == {"idle", "close", "insert", "commit", "done"}

(* seen: the rows of the UPDATE's snapshot; closing: those it closes, and  *)
(* keeps locked; version: what the INSERT computed.                        *)
Creation == [at : Steps, from : Instants \cup {Null}, seen : SUBSET PolicyIds,
             closing : SUBSET PolicyIds, version : Nat]

NotBegun == [at |-> "idle", from |-> Null, seen |-> {}, closing |-> {}, version |-> 0]
Over == [NotBegun EXCEPT !.at = "done"]

PolicyRows == {p \in PolicyIds : policies[p] # Null}

PolicyInit ==
    /\ policies = [p \in PolicyIds |-> Null]
    /\ creation = [c \in Creations |-> NotBegun]
-----------------------------------------------------------------------------
(* The UPDATE begins: its snapshot.                                        *)
Begin(c, t) ==
    /\ creation[c].at = "idle"
    /\ creation' = [creation EXCEPT
          ![c] = [NotBegun EXCEPT !.at = "close", !.from = t, !.seen = PolicyRows]]
    /\ UNCHANGED policies

(* The WHERE clause.  The mutant also closes what is closed.               *)
ClosableAgain(row, t) == row.from < t
Closable(row, t) == row.to = Null /\ row.from < t

(* It takes effect once no other transaction holds a row it wants.         *)
Close(c) ==
    LET k == creation[c]
        wanted == {p \in k.seen : Closable(policies[p], k.from)}
    IN
    /\ k.at = "close"
    /\ \A d \in Creations \ {c} : creation[d].closing \cap wanted = {}
    /\ creation' = [creation EXCEPT
          ![c] = [k EXCEPT !.at = "insert", !.seen = {}, !.closing = wanted]]
    /\ UNCHANGED policies

(* The INSERT: one more than the largest version in its own snapshot.      *)
Number(c) ==
    LET k == creation[c] IN
    /\ k.at = "insert"
    /\ \E v \in {policies[p].version : p \in PolicyRows} \cup {0} :
         /\ \A p \in PolicyRows : policies[p].version <= v
         /\ creation' = [creation EXCEPT
               ![c] = [k EXCEPT !.at = "commit", !.version = v + 1]]
    /\ UNCHANGED policies

(* What a transaction that fails leaves of its UPDATE: nothing.  The       *)
(* mutant runs its statements without a transaction.                       *)
Closed(rows, ps, t) ==
    [p \in PolicyIds |-> IF p \in ps
                         THEN [from |-> rows[p].from, to |-> t, version |-> rows[p].version]
                         ELSE rows[p]]
KeptClosed(rows, ps, t) == Closed(rows, ps, t)
RolledBack(rows, ps, t) == rows

VersionTaken(v) == \E p \in PolicyRows : policies[p].version = v

(* The unique index lets the transaction commit, or does not.              *)
Commit(c) ==
    LET k == creation[c] IN
    /\ k.at = "commit"
    /\ ~VersionTaken(k.version)
    /\ \E p \in PolicyIds \ PolicyRows :
         policies' = [Closed(policies, k.closing, k.from) EXCEPT
                         ![p] = [from |-> k.from, to |-> Null, version |-> k.version]]
    /\ creation' = [creation EXCEPT ![c] = Over]

(* A version that is taken, a percentage or a building the constraints     *)
(* refuse, or a caller that is gone.                                       *)
Fail(c) ==
    LET k == creation[c] IN
    /\ k.at \in {"close", "insert", "commit"}
    /\ policies' = RolledBack(policies, k.closing, k.from)
    /\ creation' = [creation EXCEPT ![c] = Over]

PolicyNext ==
    \E c \in Creations :
        \/ \E t \in Instants : Begin(c, t)
        \/ Close(c) \/ Number(c) \/ Commit(c) \/ Fail(c)

PolicySpec == PolicyInit /\ [][PolicyNext]_policyVars
-----------------------------------------------------------------------------
(* GetActiveMax at instant t: of the policies in force, the one that       *)
(* started last, and of those the newest.                                  *)
InForce(p, t) ==
    /\ policies[p].from <= t
    /\ policies[p].to = Null \/ policies[p].to > t

Later(p, q) ==
    \/ policies[p].from > policies[q].from
    \/ policies[p].from = policies[q].from /\ policies[p].version > policies[q].version

Active(t) ==
    {p \in PolicyRows : /\ InForce(p, t)
                        /\ \A q \in PolicyRows : InForce(q, t) => ~Later(q, p)}

(* The policy that started last by instant t, whatever became of it.       *)
Latest(t) ==
    {p \in PolicyRows : /\ policies[p].from <= t
                        /\ \A q \in PolicyRows : policies[q].from <= t => ~Later(q, p)}

(* Type invariant: rows and transactions.                                  *)
PoliciesTypeOK ==
    /\ policies \in [PolicyIds -> Policy \cup {Null}]
    /\ creation \in [Creations -> Creation]

(***************************************************************************)
(* The policy that governs an instant is the one that started last, and it *)
(* is the only one GetActiveMax can pick.  So policies created out of      *)
(* order or at the same time may leave two of them open, but never a limit *)
(* that an older policy sets, and never a gap in which none is in force.   *)
(***************************************************************************)
LatestRules == \A t \in Instants : \A p \in Latest(t) : Active(t) = {p}

(***************************************************************************)
(* A policy is closed once: no later or concurrent creation moves the end  *)
(* of a period that is over, by which past offers were judged.             *)
(***************************************************************************)
PeriodsStand ==
    [][\A p \in PolicyRows : /\ policies'[p].from = policies[p].from
                             /\ policies[p].to # Null => policies'[p] = policies[p]]_policyVars
=============================================================================
