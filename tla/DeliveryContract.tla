-------------------------- MODULE DeliveryContract --------------------------
(***************************************************************************)
(* What the dispatch subsystem promises, without assignments, radii, jobs  *)
(* or timeouts: an order moves forward through its statuses, is given to   *)
(* one courier while it is ready, and a courier carries one order at a     *)
(* time.  Dispatch implements this specification.                          *)
(***************************************************************************)
EXTENDS OrderLifecycle

CONSTANTS Orders, Partners, NoPartner

VARIABLES status,    \* status[o]: the status of order o
          courier    \* courier[o]: its delivery_partner, or NoPartner

vars == <<status, courier>>

Carries(p, o) == courier[o] = p /\ status[o] \in ActiveStatuses

TypeOK == /\ status \in [Orders -> OrderStatuses]
          /\ courier \in [Orders -> Partners \cup {NoPartner}]

Init == /\ status = [o \in Orders |-> "placed"]
        /\ courier = [o \in Orders |-> NoPartner]

\* The order moves on, with whatever courier it has.
Progress(o, s) ==
    /\ Forward(status[o], s)
    /\ status' = [status EXCEPT ![o] = s]
    /\ UNCHANGED courier

\* A ready order is given to a courier who carries nothing else.
Assign(o, p) ==
    /\ status[o] = "ready"
    /\ \A other \in Orders \ {o} : ~Carries(p, other)
    /\ courier' = [courier EXCEPT ![o] = p]
    /\ UNCHANGED status

\* The courier gives an undelivered order up, or it is taken from them; it is
\* ready again for another.
Release(o) ==
    /\ status[o] \in {"ready", "picked_up"}
    /\ status' = [status EXCEPT ![o] = "ready"]
    /\ courier' = [courier EXCEPT ![o] = NoPartner]

Next == \E o \in Orders :
            \/ \E s \in OrderStatuses : Progress(o, s)
            \/ \E p \in Partners : Assign(o, p)
            \/ Release(o)

Spec == Init /\ [][Next]_vars
-----------------------------------------------------------------------------
\* A courier carries one order at a time: the promise that AcceptAssignment and
\* AdminReassignDelivery keep with has_active_deliveries under the courier's
\* row lock.
OneOrderPerCourier ==
    \A p \in Partners : \A o1, o2 \in Orders :
        Carries(p, o1) /\ Carries(p, o2) => o1 = o2

\* Only an order that is ready or beyond has a courier.
CourierOnlyAfterReady ==
    \A o \in Orders : courier[o] # NoPartner =>
        status[o] \in ActiveStatuses \cup TerminalStatuses
=============================================================================
