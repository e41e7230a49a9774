--------------------------- MODULE MCDomainEvents ---------------------------
(***************************************************************************)
(* A small instance of DomainEvents: one event of any kind, two deals in   *)
(* the building, and another agent's call in the queue of the backend.     *)
(***************************************************************************)
EXTENDS DomainEvents

CONSTANTS d1, d2

MCListings == {<<d1, d2>>, <<d2>>}

MCCallIds ==
    (Handlings \X {"deal.list_by_building", "offer.get", "offer.generate_pdf"} \X {None})
    \cup (Handlings \X {"deal.get", "recommendation.create"} \X {d1, d2})

Sound(kind) == [kind |-> kind, absent |-> {}]

MCEventMessages ==
    {Sound(kind) : kind \in Kinds}
    \cup {[kind |-> "delay", absent |-> {"building"}]}
=============================================================================
