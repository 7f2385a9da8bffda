--------------------------- MODULE OrderLifecycle ---------------------------
(***************************************************************************)
(* The status column of an order (orders/models/order.py) and the order in *)
(* which AdminUpdateOrderStatusAction lists the statuses.                  *)
(***************************************************************************)
EXTENDS Naturals

OrderStatuses == {"placed", "confirmed", "preparing", "ready", "picked_up",
                  "on_the_way", "delivered", "cancelled"}

\* An order in one of these statuses occupies the courier it is assigned to.
ActiveStatuses == {"ready", "picked_up", "on_the_way"}

TerminalStatuses == {"delivered", "cancelled"}

\* Vendors and customers may cancel an order that has not been picked up.
CancellableStatuses == {"placed", "confirmed", "preparing", "ready"}

\* The index of a status in valid_statuses.
Rank(s) == CASE s = "placed"     -> 0
             [] s = "confirmed"  -> 1
             [] s = "preparing"  -> 2
             [] s = "ready"      -> 3
             [] s = "picked_up"  -> 4
             [] s = "on_the_way" -> 5
             [] s = "delivered"  -> 6
             [] OTHER            -> 7

\* The moves the back office accepts: never out of a terminal status, and
\* never backwards.
Forward(s, t) == /\ s \notin TerminalStatuses
                 /\ Rank(s) < Rank(t)
=============================================================================
