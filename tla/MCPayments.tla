----------------------------- MODULE MCPayments -----------------------------
(* Small instances of Payments for TLC.                                    *)
EXTENDS Payments, TLC

CONSTANTS o1, o2, g1, g2

OneOrder == {o1}
TwoOrders == {o1, o2}
TwoGateways == {g1, g2}

OrdersAlike == Permutations({o1, o2}) \cup Permutations({g1, g2})
=============================================================================
