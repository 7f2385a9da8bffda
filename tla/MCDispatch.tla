----------------------------- MODULE MCDispatch -----------------------------
(* Small instances of Dispatch for TLC.                                    *)
EXTENDS Dispatch, TLC

CONSTANTS o1, o2, p1

OneOrder == {o1}
TwoOrders == {o1, o2}
OnePartner == {p1}

NoFaults == {}
StartFaults == {"start"}

\* Orders are interchangeable.
OrderSymmetry == Permutations({o1, o2})

\* With two orders the search machinery of the one-order runs is held still: no
\* search grows old and no rejection is open.
SearchesStandStill ==
    \A o \in Orders : assignment[o].age = Fresh /\ rejecting[o] = {}
=============================================================================
