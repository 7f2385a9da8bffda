------------------------------ MODULE MCCheckout ------------------------------
(* Small instances of Checkout for TLC.                                    *)
EXTENDS Checkout, TLC

CONSTANTS c1, c2, a1, b1, o1, o2, r1, r2, storeA, storeB

OneCustomer == {c1}
TwoCustomers == {c1, c2}
OneProduct == {a1}
TwoProducts == {a1, b1}
TwoOrders == {o1, o2}
TwoRequests == {r1, r2}
NoLegacy == {}
OneLegacy == {o1}
None == {}

StoreOf == [p \in Products |-> IF p = a1 THEN storeA ELSE storeB]

\* Bound: stores neither hide products nor mark them sold out by hand.
StoresKeepListing ==
    \A p \in Products : listing[p] = "active" \/ (stock[p] = 0 /\ listing[p] = "sold_out")

\* Bound: one add to a basket is under way at a time, where races of adds are not
\* what a run is about.
OneAddAtATime == Cardinality(adding) <= 1

CustomersAlike == Permutations({c1, c2}) \cup Permutations({o1, o2}) \cup Permutations({r1, r2})
RequestsAlike == Permutations({o1, o2}) \cup Permutations({r1, r2})
=============================================================================
