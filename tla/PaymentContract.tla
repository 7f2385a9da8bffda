--------------------------- MODULE PaymentContract ---------------------------
(***************************************************************************)
(* What online payment promises: an order counts as paid only when the     *)
(* gateway holds a payment of exactly its price, it stays paid, and money  *)
(* goes back for it at most once, out of such a payment and only as it is  *)
(* cancelled.                                                              *)
(***************************************************************************)
EXTENDS Integers

CONSTANTS Orders, Payments

VARIABLES
    money,     \* what the gateway has captured, per payment
    price,     \* of each order; 0 for one that is not placed
    paid,      \* orders that count as paid
    closed,    \* orders that are cancelled
    returned   \* orders that money went back for, each with the payment it came from

vars == <<money, price, paid, closed, returned>>

Amounts == Nat \ {0}

Init == /\ money = [g \in Payments |-> 0]
        /\ price = [o \in Orders |-> 0]
        /\ paid = {}
        /\ closed = {}
        /\ returned = {}

Capture(g) == /\ money[g] = 0
              /\ money'[g] \in Amounts
              /\ money' = [money EXCEPT ![g] = money'[g]]
              /\ UNCHANGED <<price, paid, closed, returned>>

Place(o) == /\ price[o] = 0
            /\ price'[o] \in Amounts
            /\ price' = [price EXCEPT ![o] = price'[o]]
            /\ paid' \in {paid, paid \cup {o}}
            /\ o \in paid' => \E g \in Payments : money[g] = price'[o]
            /\ UNCHANGED <<money, closed, returned>>

\* A payment may arrive late, when the order is cancelled already.
Pay(o) == /\ price[o] # 0
          /\ \E g \in Payments : money[g] = price[o]
          /\ paid' = paid \cup {o}
          /\ UNCHANGED <<money, price, closed, returned>>

Cancel(o) == /\ price[o] # 0
             /\ o \notin closed
             /\ closed' = closed \cup {o}
             /\ \/ UNCHANGED returned
                \/ /\ o \in paid
                   /\ \E g \in Payments : /\ money[g] = price[o]
                                          /\ returned' = returned \cup {<<o, g>>}
             /\ UNCHANGED <<money, price, paid>>

Next == \/ \E g \in Payments : Capture(g)
        \/ \E o \in Orders : Place(o) \/ Pay(o) \/ Cancel(o)

Spec == Init /\ [][Next]_vars
=============================================================================
