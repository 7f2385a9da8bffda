---------------------------- MODULE ShelfContract ----------------------------
(***************************************************************************)
(* What checkout promises about a store's goods: an order takes exactly    *)
(* the units it was placed for off the shelf, never more than lie there,   *)
(* and puts them back once if it is cancelled.  Nothing but a stocktake    *)
(* of the store itself moves other units.                                  *)
(***************************************************************************)
EXTENDS Naturals

CONSTANTS Products, Orders

VARIABLES
    shelf,   \* units of each product that can be sold
    phase,   \* of each order: absent, open, delivered or cancelled
    held     \* units an order has taken and not given back

vars == <<shelf, phase, held>>

Units == [Products -> Nat]

Nothing == [p \in Products |-> 0]

\* Orders placed before stock was tracked per order are open from the start.
Init == /\ shelf \in Units
        /\ phase \in [Orders -> {"absent", "open"}]
        /\ held \in [Orders -> Units]
        /\ \A o \in Orders : phase[o] = "absent" => held[o] = Nothing

Stocktake(p) == /\ shelf' \in Units
                /\ \A other \in Products \ {p} : shelf'[other] = shelf[other]
                /\ UNCHANGED <<phase, held>>

Take(o) == /\ phase[o] = "absent"
           /\ held'[o] \in Units
           /\ \A p \in Products : held'[o][p] <= shelf[p]
           /\ shelf' = [p \in Products |-> shelf[p] - held'[o][p]]
           /\ held' = [held EXCEPT ![o] = held'[o]]
           /\ phase' = [phase EXCEPT ![o] = "open"]

Deliver(o) == /\ phase[o] = "open"
              /\ phase' = [phase EXCEPT ![o] = "delivered"]
              /\ UNCHANGED <<shelf, held>>

GiveBack(o) == /\ phase[o] = "open"
               /\ shelf' = [p \in Products |-> shelf[p] + held[o][p]]
               /\ held' = [held EXCEPT ![o] = Nothing]
               /\ phase' = [phase EXCEPT ![o] = "cancelled"]

Next == \/ \E p \in Products : Stocktake(p)
        \/ \E o \in Orders : \/ Take(o)
                             \/ Deliver(o)
                             \/ GiveBack(o)

Spec == Init /\ [][Next]_vars
=============================================================================
