--------------------------- MODULE CheckoutProofs ---------------------------
(***************************************************************************)
(* Theorems about Checkout for any customers, products, stores, nodes,     *)
(* orders and number of overlapping requests.                              *)
(***************************************************************************)
EXTENDS Checkout, SumTheorems, TLAPS

\* The three facts do not lean on each other: what protects them is checked by
\* PlaceOrder under its locks, so each is inductive with TypeOK.
IInv == TypeOK /\ OneOrderPerKey /\ SingleStoreOrders

LEMMA OrderColumns ==
    ASSUME TypeOK, NEW o \in Orders
    PROVE  /\ order[o] \in OrderRows
           /\ order[o].items \in [Products -> Nat]
           /\ Releasable(o) \in [Products -> Nat]
BY DEF TypeOK, OrderRows, Releasable, Nothing

LEMMA RequestColumns ==
    ASSUME TypeOK, NEW r \in Requests
    PROVE  /\ request[r] \in RequestRows
           /\ request[r].items \in [Products -> Nat]
           /\ request[r].key \in Keys \cup {NoKey}
           /\ request[r].coupon \in Coupons \cup {NoCoupon}
           /\ request[r].node \in Nodes \cup {NoNode}
           /\ request[r].customer \in Customers \cup {Nobody}
BY DEF TypeOK, RequestRows

LEMMA NullRows ==
    /\ Nothing \in [Products -> Nat]
    /\ NoOrder \in OrderRows
    /\ NoRequest \in RequestRows
    /\ NoRow \in [exists : BOOLEAN, stock : Nat, available : BOOLEAN]
BY DEF Nothing, NoOrder, OrderRows, NoRequest, RequestRows, NoRow

LEMMA InitType == Init => TypeOK
<1> SUFFICES ASSUME Init PROVE TypeOK
  OBVIOUS
<1> USE CheckoutAssumption, NullRows
<1>1. stock \in [Products -> Nat]
  BY DEF Init
<1>2. order \in [Orders -> OrderRows]
  <2>1. PICK c \in Customers, items \in [Products -> Quantities] :
            order = [o \in Orders |-> IF o \in LegacyOrders THEN LegacyRow(o, c, items)
                                                            ELSE NoOrder]
    BY DEF Init
  <2>2. items \in [Products -> Nat]
    BY DEF Quantities
  <2>3. \A o \in Orders : LegacyRow(o, c, items) \in OrderRows
    BY <2>2 DEF LegacyRow, NoOrder, OrderRows
  <2> QED  BY <2>1, <2>3
<1>3. /\ listing \in [Products -> Listings]
      /\ row \in [Nodes -> [Products -> [exists : BOOLEAN, stock : Nat, available : BOOLEAN]]]
      /\ basket \in [Customers -> [Products -> Nat]]
      /\ lockedTo \in [Customers -> Nodes \cup {NoNode}]
      /\ adding \subseteq Customers \X Products \X (Nodes \cup {NoNode})
  BY DEF Init, Listings
<1>4. /\ request \in [Requests -> RequestRows]
      /\ ledger \in [Orders -> {"none", "committed", "released"}]
      /\ coupon \in [Coupons -> [active : BOOLEAN, used : Nat]]
      /\ edit \in [Editors -> [coupon : Coupons \cup {NoCoupon}, used : Nat]]
  BY DEF Init
<1>5. \A r \in Requests : request[r].at \notin InFlight
  BY DEF Init, NoRequest, InFlight
<1> QED  BY <1>1, <1>2, <1>3, <1>4, <1>5 DEF TypeOK

LEMMA InitInv == Init => IInv
<1> SUFFICES ASSUME Init PROVE IInv
  OBVIOUS
<1>1. PICK c \in Customers, items \in {i \in [Products -> Quantities] : OneStore(i)} :
          order = [o \in Orders |-> IF o \in LegacyOrders THEN LegacyRow(o, c, items)
                                                          ELSE NoOrder]
  BY DEF Init
<1>2. \A o \in Orders : order[o].key = NoKey /\ order[o].items \in {Nothing, items}
  BY <1>1 DEF LegacyRow, NoOrder
<1>3. OneOrderPerKey
  BY <1>2, CheckoutAssumption DEF OneOrderPerKey, OrdersOf
<1>4. SingleStoreOrders
  BY <1>2 DEF SingleStoreOrders, Nothing, OneStore, Wanted
<1> QED  BY InitType, <1>3, <1>4 DEF IInv
-----------------------------------------------------------------------------
\* A step that leaves the orders alone keeps what is said of them.
LEMMA SameOrders ==
    ASSUME IInv, UNCHANGED order
    PROVE  OneOrderPerKey' /\ SingleStoreOrders'
BY DEF IInv, OneOrderPerKey, SingleStoreOrders, OrdersOf, Exists, Wanted

LEMMA StatusType ==
    ASSUME TypeOK, NEW o \in Orders, NEW s \in {"delivered", "cancelled"},
           order' = [order EXCEPT ![o].status = s]
    PROVE  order' \in [Orders -> OrderRows]
<1>1. order \in [Orders -> OrderRows]
  BY DEF TypeOK
<1> QED  BY <1>1 DEF OrderRows

\* A step that changes the status of one order that exists.
LEMMA StatusStep ==
    ASSUME IInv, NEW o \in Orders, Exists(o), NEW s \in {"delivered", "cancelled"},
           order' = [order EXCEPT ![o].status = s]
    PROVE  OneOrderPerKey' /\ SingleStoreOrders'
<1>1. order \in [Orders -> OrderRows]
  BY DEF IInv, TypeOK
<1>3. \A q \in Orders : /\ order'[q].customer = order[q].customer
                        /\ order'[q].key = order[q].key
                        /\ order'[q].items = order[q].items
                        /\ Exists(q)' <=> Exists(q)
  BY <1>1 DEF OrderRows, Exists
<1>4. \A q \in Orders : Wanted(order[q].items)' = Wanted(order[q].items)
  BY <1>3 DEF Wanted
<1>5. \A c \in Customers, key \in Keys : OrdersOf(c, key)' = OrdersOf(c, key)
  BY <1>3 DEF OrdersOf
<1>6. OneOrderPerKey'
  <2> SUFFICES ASSUME NEW c \in Customers, NEW key \in Keys,
                      NEW o1 \in OrdersOf(c, key), NEW o2 \in OrdersOf(c, key), o1 # o2,
                      NEW p \in Wanted(order[o1].items), NEW q \in Wanted(order[o2].items)
               PROVE  VendorOf[p] # VendorOf[q]
    BY <1>4, <1>5 DEF OneOrderPerKey, OrdersOf
  <2> QED  BY DEF IInv, OneOrderPerKey
<1>7. SingleStoreOrders'
  BY <1>3 DEF IInv, SingleStoreOrders
<1> QED  BY <1>6, <1>7

\* What checkout takes and a cancellation restores keeps its type.
LEMMA TakeType ==
    ASSUME TypeOK, NEW items \in [Products -> Nat], NEW n \in Nodes \cup {NoNode},
           TakeGoods(items, n)
    PROVE  /\ stock' \in [Products -> Nat]
           /\ listing' \in [Products -> Listings]
           /\ row' \in [Nodes -> [Products -> [exists : BOOLEAN, stock : Nat, available : BOOLEAN]]]
<1>1. \A m, k \in Nat : Less(m, k) \in Nat
  BY DEF Less
<1>2. stock' \in [Products -> Nat]
  BY <1>1 DEF TakeGoods, TypeOK
<1>3. listing' \in [Products -> Listings]
  BY DEF TakeGoods, TypeOK, Listings
<1>4. ASSUME NEW m \in Nodes, NEW p \in Products
      PROVE  [exists |-> TRUE, stock |-> Less(row[m][p].stock, items[p]),
              available |-> Less(row[m][p].stock, items[p]) > 0]
                 \in [exists : BOOLEAN, stock : Nat, available : BOOLEAN]
  <2>1. Less(row[m][p].stock, items[p]) \in Nat
    <3>1. row[m][p] \in [exists : BOOLEAN, stock : Nat, available : BOOLEAN]
      BY DEF TypeOK
    <3>2. row[m][p].stock \in Nat /\ items[p] \in Nat
      BY <3>1
    <3> QED  BY <1>1, <3>2
  <2>2. (Less(row[m][p].stock, items[p]) > 0) \in BOOLEAN
    OBVIOUS
  <2> QED  BY <2>1, <2>2, Zenon
<1>5. row' \in [Nodes -> [Products -> [exists : BOOLEAN, stock : Nat, available : BOOLEAN]]]
  BY <1>4 DEF TakeGoods, TypeOK
<1> QED  BY <1>2, <1>3, <1>5

LEMMA RestoreType ==
    ASSUME TypeOK, NEW items \in [Products -> Nat], NEW n, RestoreGoods(items, n)
    PROVE  /\ stock' \in [Products -> Nat]
           /\ listing' \in [Products -> Listings]
           /\ row' \in [Nodes -> [Products -> [exists : BOOLEAN, stock : Nat, available : BOOLEAN]]]
<1>1. stock' \in [Products -> Nat] /\ listing' \in [Products -> Listings]
  BY DEF RestoreGoods, TypeOK, Listings
<1>2. \A m \in Nodes, p \in Products :
          [exists |-> TRUE, stock |-> row[m][p].stock + items[p], available |-> TRUE]
              \in [exists : BOOLEAN, stock : Nat, available : BOOLEAN]
  BY DEF TypeOK
<1>3. row' \in [Nodes -> [Products -> [exists : BOOLEAN, stock : Nat, available : BOOLEAN]]]
  BY <1>2 DEF RestoreGoods, TypeOK
<1> QED  BY <1>1, <1>3
-----------------------------------------------------------------------------
\* Type correctness, one action at a time.
LEMMA TypeStep == TypeOK /\ [Next]_vars => TypeOK'
<1> SUFFICES ASSUME TypeOK, [Next]_vars PROVE TypeOK'
  OBVIOUS
<1> USE DEF goods, baskets, orders, coupons
<1>1. ASSUME NEW p \in Products, NEW n \in 0..MaxStock, SetStock(p, n) PROVE TypeOK'
  BY <1>1, CheckoutAssumption DEF SetStock, TypeOK
<1>2. ASSUME NEW p \in Products, NEW s \in Listings, SetListing(p, s) PROVE TypeOK'
  BY <1>2 DEF SetListing, TypeOK
<1>3. ASSUME NEW n \in Nodes, NEW p \in Products, NEW new \in NodeRows, SetNodeRow(n, p, new)
      PROVE  TypeOK'
  <2>1. new \in [exists : BOOLEAN, stock : Nat, available : BOOLEAN]
    <3>1. 0..MaxStock \subseteq Nat /\ {TRUE} \subseteq BOOLEAN
      BY CheckoutAssumption
    <3>2. CASE new \in [exists : {TRUE}, stock : 0..MaxStock, available : BOOLEAN]
      BY <3>1, <3>2
    <3> QED  BY <3>2, NullRows DEF NodeRows
  <2> QED  BY <1>3, <2>1 DEF SetNodeRow, TypeOK
<1>4. ASSUME NEW k \in Coupons, NEW active \in BOOLEAN, SetCouponActive(k, active)
      PROVE  TypeOK'
  BY <1>4 DEF SetCouponActive, TypeOK
<1>5. ASSUME NEW e \in Editors, NEW k \in Coupons, OpenCoupon(e, k) PROVE TypeOK'
  BY <1>5 DEF OpenCoupon, TypeOK
<1>6. ASSUME NEW e \in Editors, NEW active \in BOOLEAN, SaveCoupon(e, active) PROVE TypeOK'
  BY <1>6 DEF SaveCoupon, TypeOK
<1>7. ASSUME NEW c \in Customers, NEW p \in Products, NEW n \in Nodes \cup {NoNode},
             CheckAdd(c, p, n) \/ FinishAdd(c, p, n)
      PROVE  TypeOK'
  <2>1. CASE CheckAdd(c, p, n)
    BY <2>1 DEF CheckAdd, TypeOK
  <2>2. CASE FinishAdd(c, p, n)
    <3>1. /\ basket' \in [Customers -> [Products -> Nat]]
          /\ lockedTo' \in [Customers -> Nodes \cup {NoNode}]
      BY <2>2 DEF FinishAdd, TypeOK
    <3>2. adding' \subseteq Customers \X Products \X (Nodes \cup {NoNode})
      BY <2>2 DEF FinishAdd, TypeOK
    <3> QED  BY <2>2, <3>1, <3>2 DEF FinishAdd, TypeOK
  <2> QED  BY <1>7, <2>1, <2>2
<1>8. ASSUME NEW c \in Customers, NEW p \in Products, NEW quantity \in Quantities,
             SetQuantity(c, p, quantity)
      PROVE  TypeOK'
  BY <1>8 DEF SetQuantity, Quantities, TypeOK
<1>9. ASSUME NEW c \in Customers, ClearCart(c) PROVE TypeOK'
  BY <1>9, NullRows DEF ClearCart, TypeOK
<1>10. ASSUME NEW c \in Customers, NEW p \in Products, NEW quantity \in 1..MaxQuantity,
              NEW n \in Nodes \cup {NoNode}, ReplaceCart(c, p, quantity, n)
       PROVE  TypeOK'
  <2>1. [Nothing EXCEPT ![p] = quantity] \in [Products -> Nat]
    BY NullRows
  <2> QED  BY <1>10, <2>1 DEF ReplaceCart, TypeOK
<1>11. ASSUME NEW c \in Customers, NEW n \in Nodes, RefreshFulfillment(c, n) PROVE TypeOK'
  BY <1>11 DEF RefreshFulfillment, TypeOK
<1>12. ASSUME NEW c \in Customers, NEW o \in Orders, Reorder(c, o) PROVE TypeOK'
  <2>1. order[o].items \in [Products -> Nat] /\ stock \in [Products -> Nat]
    BY OrderColumns DEF TypeOK
  <2> QED  BY <1>12, <2>1 DEF Reorder, TypeOK
<1>13. ASSUME NEW r \in Requests, NEW answer \in {"ordered", "empty", "refused"},
              Answer(r, answer)
       PROVE  /\ request' \in [Requests -> RequestRows]
              /\ (\A q \in Requests :
                     request[q].at \in InFlight => request[q].customer \in Customers)'
  <2>1. /\ [NoRequest EXCEPT !.at = answer] \in RequestRows
        /\ [NoRequest EXCEPT !.at = answer].at \notin InFlight
    BY DEF NoRequest, RequestRows, Nothing, InFlight
  <2> QED  BY <1>13, <2>1 DEF Answer, TypeOK
<1>14. ASSUME NEW r \in Requests, NEW c \in Customers, NEW key \in Keys \cup {NoKey},
              Replay(r, c, key)
       PROVE  TypeOK'
  BY <1>13, <1>14 DEF Replay, TypeOK
<1>15. ASSUME NEW r \in Requests, NEW c \in Customers, NEW key \in Keys \cup {NoKey},
              NEW k \in Coupons \cup {NoCoupon}, Submit(r, c, key, k)
       PROVE  TypeOK'
  <2> DEFINE new == [NoRequest EXCEPT !.at = "waiting", !.customer = c, !.key = key,
                                      !.coupon = k]
  <2>1. new \in RequestRows /\ new.customer = c
    BY DEF NoRequest, RequestRows, Nothing
  <2>2. request' = [request EXCEPT ![r] = new]
    BY <1>15 DEF Submit
  <2> HIDE DEF new
  <2>3. /\ request' \in [Requests -> RequestRows]
        /\ (\A q \in Requests : request[q].at \in InFlight => request[q].customer \in Customers)'
    BY <2>1, <2>2 DEF TypeOK
  <2> QED  BY <1>15, <2>3 DEF Submit, TypeOK
<1>16. ASSUME NEW r \in Requests, LockCart(r) PROVE TypeOK'
  <2>1. request[r] \in RequestRows
    BY RequestColumns
  <2>2. request[r].customer \in Customers
    BY <1>16 DEF LockCart, TypeOK, InFlight
  <2> DEFINE new == [request[r] EXCEPT !.at = "holding", !.items = basket[request[r].customer],
                                       !.node = lockedTo[request[r].customer]]
  <2>3. new \in RequestRows /\ new.customer \in Customers
    BY <2>1, <2>2 DEF RequestRows, TypeOK
  <2>4. request' = [request EXCEPT ![r] = new]
    BY <1>16 DEF LockCart
  <2> HIDE DEF new
  <2>5. /\ request' \in [Requests -> RequestRows]
        /\ (\A q \in Requests : request[q].at \in InFlight => request[q].customer \in Customers)'
    BY <2>3, <2>4 DEF TypeOK
  <2> QED  BY <1>16, <2>5 DEF LockCart, TypeOK
<1>17. ASSUME NEW r \in Requests, FindEmpty(r) \/ Refuse(r) PROVE TypeOK'
  BY <1>13, <1>17 DEF FindEmpty, Refuse, TypeOK
<1>18. ASSUME NEW r \in Requests, NEW o \in Orders, PlaceOrder(r, o) PROVE TypeOK'
  <2>1. /\ request[r].items \in [Products -> Nat]
        /\ request[r].key \in Keys \cup {NoKey}
        /\ request[r].coupon \in Coupons \cup {NoCoupon}
        /\ request[r].node \in Nodes \cup {NoNode}
        /\ request[r].customer \in Customers \cup {Nobody}
    BY RequestColumns
  <2>2. /\ stock' \in [Products -> Nat]
        /\ listing' \in [Products -> Listings]
        /\ row' \in [Nodes -> [Products -> [exists : BOOLEAN, stock : Nat, available : BOOLEAN]]]
    BY <1>18, <2>1, TakeType DEF PlaceOrder
  <2>3. [status |-> "open", customer |-> request[r].customer, key |-> request[r].key,
         node |-> request[r].node, coupon |-> request[r].coupon, items |-> request[r].items]
           \in OrderRows
    BY <2>1 DEF OrderRows
  <2>4. order' \in [Orders -> OrderRows]
    BY <1>18, <2>3 DEF PlaceOrder, TypeOK
  <2>7. coupon' \in [Coupons -> [active : BOOLEAN, used : Nat]]
    <3>1. coupon \in [Coupons -> [active : BOOLEAN, used : Nat]]
      BY DEF TypeOK
    <3> QED  BY <1>18, <3>1 DEF PlaceOrder
  <2>5. /\ ledger' \in [Orders -> {"none", "committed", "released"}]
        /\ basket' \in [Customers -> [Products -> Nat]]
        /\ lockedTo' \in [Customers -> Nodes \cup {NoNode}]
    BY <1>18, NullRows DEF PlaceOrder, TypeOK
  <2>6. /\ request' \in [Requests -> RequestRows]
        /\ (\A q \in Requests : request[q].at \in InFlight => request[q].customer \in Customers)'
    BY <1>13, <1>18 DEF PlaceOrder
  <2> QED  BY <1>18, <2>2, <2>4, <2>5, <2>6, <2>7 DEF PlaceOrder, TypeOK
<1>19. ASSUME NEW o \in Orders, Deliver(o) PROVE TypeOK'
  <2>1. order' \in [Orders -> OrderRows]
    BY <1>19, StatusType DEF Deliver
  <2> QED  BY <1>19, <2>1 DEF Deliver, TypeOK
<1>20. ASSUME NEW o \in Orders, CancelOrder(o) PROVE TypeOK'
  <2>1. order' \in [Orders -> OrderRows]
    BY <1>20, StatusType DEF CancelOrder
  <2>2. /\ stock' \in [Products -> Nat]
        /\ listing' \in [Products -> Listings]
        /\ row' \in [Nodes -> [Products -> [exists : BOOLEAN, stock : Nat, available : BOOLEAN]]]
    BY <1>20, OrderColumns, RestoreType DEF CancelOrder
  <2> QED  BY <1>20, <2>1, <2>2 DEF CancelOrder, TypeOK
<1>21. CASE UNCHANGED vars
  BY <1>21 DEF vars, TypeOK
<1> QED
  BY <1>1, <1>2, <1>3, <1>4, <1>5, <1>6, <1>7, <1>8, <1>9, <1>10, <1>11, <1>12, <1>14,
     <1>15, <1>16, <1>17, <1>18, <1>19, <1>20, <1>21
     DEF Next, StoreNext, BasketNext, CheckoutNext
-----------------------------------------------------------------------------
\* Only these steps move goods or touch an order.
LEMMA Movers ==
    ASSUME [Next]_vars
    PROVE  \/ UNCHANGED <<stock, order, ledger>>
           \/ \E p \in Products, n \in 0..MaxStock : SetStock(p, n)
           \/ \E r \in Requests, o \in Orders : PlaceOrder(r, o)
           \/ \E o \in Orders : Deliver(o)
           \/ \E o \in Orders : CancelOrder(o)
<1> DEFINE Still == UNCHANGED <<stock, order, ledger>>
<1> USE DEF goods, baskets, orders, coupons
<1>1. CASE StoreNext
  <2>1. StoreNext => Still \/ \E p \in Products, n \in 0..MaxStock : SetStock(p, n)
    BY DEF StoreNext, SetListing, SetNodeRow, SetCouponActive, OpenCoupon, SaveCoupon
  <2> QED  BY <1>1, <2>1
<1>2. CASE BasketNext
  <2>1. \A c \in Customers : ClearCart(c) => Still
    BY DEF ClearCart
  <2>2. \A c \in Customers, n \in Nodes : RefreshFulfillment(c, n) => Still
    BY DEF RefreshFulfillment
  <2>3. \A c \in Customers, o \in Orders : Reorder(c, o) => Still
    BY DEF Reorder
  <2>4. \A c \in Customers, p \in Products, quantity \in Quantities :
            SetQuantity(c, p, quantity) => Still
    BY DEF SetQuantity
  <2>5. \A c \in Customers, p \in Products, n \in Nodes \cup {NoNode} :
            CheckAdd(c, p, n) \/ FinishAdd(c, p, n) => Still
    BY DEF CheckAdd, FinishAdd
  <2>6. \A c \in Customers, p \in Products, n \in Nodes \cup {NoNode},
            quantity \in 1..MaxQuantity : ReplaceCart(c, p, quantity, n) => Still
    BY DEF ReplaceCart
  <2>7. Still
    BY <1>2, <2>1, <2>2, <2>3, <2>4, <2>5, <2>6, Zenon DEF BasketNext
  <2> QED  BY <2>7
<1>3. CASE CheckoutNext
  <2>1. CheckoutNext => Still \/ \E r \in Requests, o \in Orders : PlaceOrder(r, o)
    BY DEF CheckoutNext, Replay, Submit, LockCart, FindEmpty, Refuse
  <2> QED  BY <1>3, <2>1
<1>4. CASE UNCHANGED vars
  BY <1>4 DEF vars
<1> QED  BY <1>1, <1>2, <1>3, <1>4 DEF Next

\* What PlaceOrder finds out under its locks about the order it makes.
LEMMA PlaceStep ==
    ASSUME IInv, NEW r \in Requests, NEW o \in Orders, PlaceOrder(r, o)
    PROVE  OneOrderPerKey' /\ SingleStoreOrders'
<1> DEFINE new == [status |-> "open", customer |-> request[r].customer,
                   key |-> request[r].key, node |-> request[r].node,
                   coupon |-> request[r].coupon, items |-> request[r].items]
<1>1. /\ ~Exists(o)
      /\ OneStore(new.items)
      /\ KeyIsFree(new.customer, new.key, new.items)
      /\ order' = [order EXCEPT ![o] = new]
  BY DEF PlaceOrder
<1>2. order \in [Orders -> OrderRows]
  BY DEF IInv, TypeOK
<1>3. new.status = "open"
  OBVIOUS
<1> HIDE DEF new
<1>4. /\ \A q \in Orders \ {o} : order'[q] = order[q]
      /\ order'[o] = new
  BY <1>1, <1>2
<1>5. SingleStoreOrders'
  <2> SUFFICES ASSUME NEW q \in Orders, NEW p1 \in Products, NEW p2 \in Products,
                      order'[q].items[p1] > 0, order'[q].items[p2] > 0
               PROVE  VendorOf[p1] = VendorOf[p2]
    BY DEF SingleStoreOrders
  <2>1. CASE q = o
    BY <1>1, <1>4, <2>1 DEF OneStore, Wanted
  <2>2. CASE q # o
    BY <1>4, <2>2 DEF IInv, SingleStoreOrders
  <2> QED  BY <2>1, <2>2
<1>6. ASSUME NEW c \in Customers, NEW key \in Keys, NEW q \in OrdersOf(c, key)', q # o
      PROVE  q \in OrdersOf(c, key) /\ order'[q] = order[q]
  BY <1>4, <1>6 DEF OrdersOf, Exists
<1>7. ASSUME NEW c \in Customers, NEW key \in Keys, o \in OrdersOf(c, key)'
      PROVE  c = new.customer /\ key = new.key /\ key # NoKey
  BY <1>4, <1>7, CheckoutAssumption DEF OrdersOf
<1>8. ASSUME NEW c \in Customers, NEW key \in Keys, o \in OrdersOf(c, key)',
             NEW q \in OrdersOf(c, key)', q # o,
             NEW p1 \in Wanted(order[q].items), NEW p2 \in Wanted(new.items)
      PROVE  VendorOf[p1] # VendorOf[p2]
  <2>1. c = new.customer /\ key = new.key /\ key # NoKey
    BY <1>7, <1>8
  <2>2. q \in OrdersOf(c, key)
    BY <1>6, <1>8
  <2> QED  BY <1>1, <2>1, <2>2 DEF KeyIsFree
<1>9. OneOrderPerKey'
  <2> SUFFICES ASSUME NEW c \in Customers, NEW key \in Keys,
                      NEW o1 \in OrdersOf(c, key)', NEW o2 \in OrdersOf(c, key)', o1 # o2,
                      NEW p \in Wanted(order'[o1].items), NEW q \in Wanted(order'[o2].items)
               PROVE  VendorOf[p] # VendorOf[q]
    BY DEF OneOrderPerKey, Wanted
  <2>1. CASE o1 = o
    BY <1>4, <1>6, <1>8, <2>1
  <2>2. CASE o2 = o
    BY <1>4, <1>6, <1>8, <2>2
  <2>3. CASE o1 # o /\ o2 # o
    BY <1>6, <2>3 DEF IInv, OneOrderPerKey
  <2> QED  BY <2>1, <2>2, <2>3
<1> QED  BY <1>5, <1>9

LEMMA InvStep == IInv /\ [Next]_vars => IInv'
<1> SUFFICES ASSUME IInv, [Next]_vars PROVE IInv'
  OBVIOUS
<1>1. TypeOK'
  BY TypeStep DEF IInv
<1>2. OneOrderPerKey' /\ SingleStoreOrders'
  <2>1. CASE UNCHANGED order
    BY <2>1, SameOrders
  <2>2. ASSUME NEW p \in Products, NEW n \in 0..MaxStock, SetStock(p, n)
        PROVE  UNCHANGED order
    BY <2>2 DEF SetStock, orders
  <2>3. ASSUME NEW o \in Orders, Deliver(o) PROVE OneOrderPerKey' /\ SingleStoreOrders'
    BY <2>3, StatusStep DEF Deliver, Exists
  <2>4. ASSUME NEW o \in Orders, CancelOrder(o) PROVE OneOrderPerKey' /\ SingleStoreOrders'
    BY <2>4, StatusStep DEF CancelOrder, Exists
  <2> QED  BY <2>1, <2>2, <2>3, <2>4, Movers, PlaceStep
<1> QED  BY <1>1, <1>2 DEF IInv
-----------------------------------------------------------------------------
\* Every reachable state has the declared types.
THEOREM TypeCorrect == Spec => []TypeOK
<1>1. Init => TypeOK
  BY InitType
<1>2. TypeOK /\ [Next]_vars => TypeOK'
  BY TypeStep
<1> QED  BY <1>1, <1>2, PTL DEF Spec

\* However the requests of a customer overlap, one idempotency key makes at most
\* one order of a store (create_orders.py and the unique constraint behind it).
THEOREM KeysUnique == Spec => []OneOrderPerKey
<1>1. IInv => OneOrderPerKey
  BY DEF IInv
<1> QED  BY <1>1, InitInv, InvStep, PTL DEF Spec

\* No interleaving of basket edits and checkouts makes an order with goods of two
\* stores (validate_single_vendor_cart on the basket that was read).
THEOREM SingleStore == Spec => []SingleStoreOrders
<1>1. IInv => SingleStoreOrders
  BY DEF IInv
<1> QED  BY <1>1, InitInv, InvStep, PTL DEF Spec
-----------------------------------------------------------------------------
(* Checkout implements ShelfContract: initial states and steps.            *)

LEMMA ContractInit == Init => Shelf!Init
<1> SUFFICES ASSUME Init PROVE Shelf!Init
  OBVIOUS
<1>1. TypeOK
  BY InitType
<1>2. PICK c \in Customers, items \in {i \in [Products -> Quantities] : OneStore(i)} :
          order = [o \in Orders |-> IF o \in LegacyOrders THEN LegacyRow(o, c, items)
                                                          ELSE NoOrder]
  BY DEF Init
<1>3. \A o \in Orders : order[o].status \in {"none", "open"}
                         /\ (order[o].status = "none" => order[o].items = Nothing)
  BY <1>2 DEF LegacyRow, NoOrder
<1>4. \A o \in Orders : order[o].status = "none" => Releasable(o) = Nothing
  BY <1>3 DEF Releasable
<1>5. stock \in Shelf!Units /\ Shelf!Nothing = Nothing
  BY <1>1 DEF TypeOK, Shelf!Units, Shelf!Nothing, Nothing
<1>6. [o \in Orders |-> Releasable(o)] \in [Orders -> Shelf!Units]
  BY <1>1, OrderColumns DEF Shelf!Units
<1> QED  BY <1>3, <1>4, <1>5, <1>6 DEF Shelf!Init, Exists

\* Every step is a step of the contract or moves nothing the contract sees.
LEMMA ContractStep == TypeOK /\ [Next]_vars => [Shelf!Next]_Shelf!vars
<1> SUFFICES ASSUME TypeOK, [Next]_vars PROVE [Shelf!Next]_Shelf!vars
  OBVIOUS
<1> DEFINE phase == [o \in Orders |-> IF Exists(o) THEN order[o].status ELSE "absent"]
           held == [o \in Orders |-> Releasable(o)]
<1>1. TypeOK'
  BY TypeStep
<1>2. order \in [Orders -> OrderRows] /\ ledger \in [Orders -> {"none", "committed", "released"}]
  BY DEF TypeOK
<1>3. stock \in [Products -> Nat] /\ stock' \in [Products -> Nat]
  BY <1>1 DEF TypeOK
<1>4. Shelf!Nothing = Nothing
  BY DEF Shelf!Nothing, Nothing
<1>5. CASE UNCHANGED <<stock, order, ledger>>
  BY <1>5 DEF Shelf!vars, Exists, Releasable
<1>6. ASSUME NEW p \in Products, NEW n \in 0..MaxStock, SetStock(p, n)
      PROVE  Shelf!Next
  <2>1. phase' = phase /\ held' = held
    BY <1>6 DEF SetStock, orders, Exists, Releasable
  <2>2. \A other \in Products \ {p} : stock'[other] = stock[other]
    BY <1>3, <1>6 DEF SetStock
  <2> QED  BY <1>3, <2>1, <2>2 DEF Shelf!Next, Shelf!Stocktake, Shelf!Units
<1>7. ASSUME NEW r \in Requests, NEW o \in Orders, PlaceOrder(r, o) PROVE Shelf!Next
  <2> DEFINE items == request[r].items
  <2>1. items \in [Products -> Nat]
    BY RequestColumns
  <2>2. phase[o] = "absent"
    BY <1>7 DEF PlaceOrder
  <2>3. /\ order'[o].status = "open"
        /\ order'[o].items = items
        /\ ledger'[o] = "committed"
        /\ \A q \in Orders \ {o} : order'[q] = order[q] /\ ledger'[q] = ledger[q]
    BY <1>2, <1>7 DEF PlaceOrder
  <2>4. \A p \in Products : stock[p] >= items[p]
    BY <1>3, <1>7, <2>1 DEF PlaceOrder, InStock, Wanted
  <2>5. stock' = [p \in Products |-> stock[p] - items[p]]
    <3>1. stock' = [p \in Products |-> Less(stock[p], items[p])]
      BY <1>7 DEF PlaceOrder, TakeGoods
    <3>2. \A p \in Products : Less(stock[p], items[p]) = stock[p] - items[p]
      BY <2>4 DEF Less
    <3> QED  BY <3>1, <3>2
  <2>6. held' = [held EXCEPT ![o] = items] /\ held'[o] = items
    BY <2>3 DEF Releasable
  <2>7. phase' = [phase EXCEPT ![o] = "open"]
    BY <2>3 DEF Exists
  <2> HIDE DEF items, phase, held
  <2>8. Shelf!Take(o)
    BY <2>1, <2>2, <2>4, <2>5, <2>6, <2>7 DEF Shelf!Take, Shelf!Units, phase, held
  <2> QED  BY <2>8 DEF Shelf!Next
<1>8. ASSUME NEW o \in Orders, Deliver(o) PROVE Shelf!Next
  <2>1. /\ order[o].status = "open"
        /\ order'[o].status = "delivered"
        /\ order'[o].items = order[o].items
        /\ \A q \in Orders \ {o} : order'[q] = order[q]
        /\ ledger' = ledger /\ stock' = stock
    BY <1>2, <1>8 DEF Deliver, goods, OrderRows
  <2>2. phase[o] = "open" /\ phase' = [phase EXCEPT ![o] = "delivered"]
    BY <2>1 DEF Exists
  <2>3. held' = held
    BY <2>1 DEF Releasable
  <2>4. Shelf!Deliver(o)
    BY <2>1, <2>2, <2>3 DEF Shelf!Deliver
  <2> QED  BY <2>4 DEF Shelf!Next
<1>9. ASSUME NEW o \in Orders, CancelOrder(o) PROVE Shelf!Next
  <2>1. /\ order[o].status = "open"
        /\ order'[o].status = "cancelled"
        /\ ledger'[o] = "released"
        /\ \A q \in Orders \ {o} : order'[q] = order[q] /\ ledger'[q] = ledger[q]
    BY <1>2, <1>9 DEF CancelOrder, OrderRows
  <2>2. stock' = [p \in Products |-> stock[p] + held[o][p]]
    BY <1>9 DEF CancelOrder, RestoreGoods
  <2>3. phase[o] = "open" /\ phase' = [phase EXCEPT ![o] = "cancelled"]
    BY <2>1 DEF Exists
  <2>4. held' = [held EXCEPT ![o] = Nothing]
    BY <2>1 DEF Releasable
  <2>5. Shelf!GiveBack(o)
    BY <1>4, <2>2, <2>3, <2>4 DEF Shelf!GiveBack
  <2> QED  BY <2>5 DEF Shelf!Next
<1> QED  BY <1>5, <1>6, <1>7, <1>8, <1>9, Movers

\* The goods of every store behave as ShelfContract promises: an order takes what
\* it was placed for and no more than there is, and puts it back at most once.
THEOREM ShelfImplemented == Spec => ImplementsShelf
<1>1. Spec => []TypeOK
  BY TypeCorrect
<1> QED  BY <1>1, ContractInit, ContractStep, PTL DEF Spec, ImplementsShelf, Shelf!Spec
-----------------------------------------------------------------------------
(* The per-customer limit of a coupon: a count over the orders, which are  *)
(* finitely many; only PlaceOrder adds to it, having compared it.          *)

LEMMA RedemptionsFinite ==
    \A k \in Coupons, c \in Customers :
        IsFiniteSet(RedemptionsBy(k, c)) /\ Cardinality(RedemptionsBy(k, c)) \in Nat
<1>1. \A k \in Coupons, c \in Customers : RedemptionsBy(k, c) \subseteq Orders
  BY DEF RedemptionsBy, Redemptions
<1> QED  BY <1>1, FS_Subset, FS_CardinalityType, CheckoutAssumption

LEMMA LimitInit == Init => PerUserLimitKept
<1> SUFFICES ASSUME Init, NEW k \in Coupons, NEW c \in Customers
             PROVE  Cardinality(RedemptionsBy(k, c)) <= PerUserLimit
  BY DEF PerUserLimitKept
<1>1. PICK b \in Customers, items \in {i \in [Products -> Quantities] : OneStore(i)} :
          order = [o \in Orders |-> IF o \in LegacyOrders THEN LegacyRow(o, b, items)
                                                          ELSE NoOrder]
  BY DEF Init
<1>2. \A o \in Orders : order[o].coupon = NoCoupon
  BY <1>1 DEF LegacyRow, NoOrder
<1>3. RedemptionsBy(k, c) = {}
  BY <1>2, CheckoutAssumption DEF RedemptionsBy, Redemptions
<1> QED  BY <1>3, FS_EmptySet, CheckoutAssumption

LEMMA LimitStep == TypeOK /\ PerUserLimitKept /\ [Next]_vars => PerUserLimitKept'
<1> SUFFICES ASSUME TypeOK, PerUserLimitKept, [Next]_vars,
                    NEW k \in Coupons, NEW c \in Customers
             PROVE  Cardinality(RedemptionsBy(k, c)') <= PerUserLimit
  BY DEF PerUserLimitKept
<1>1. order \in [Orders -> OrderRows]
  BY DEF TypeOK
<1>2. ASSUME RedemptionsBy(k, c)' = RedemptionsBy(k, c)
      PROVE  Cardinality(RedemptionsBy(k, c)') <= PerUserLimit
  BY <1>2 DEF PerUserLimitKept
<1>3. CASE UNCHANGED order
  BY <1>2, <1>3 DEF RedemptionsBy, Redemptions
<1>4. ASSUME NEW p \in Products, NEW n \in 0..MaxStock, SetStock(p, n)
      PROVE  UNCHANGED order
  BY <1>4 DEF SetStock, orders
<1>5. ASSUME NEW o \in Orders, Deliver(o) \/ CancelOrder(o)
      PROVE  RedemptionsBy(k, c)' = RedemptionsBy(k, c)
  <2>1. \A q \in Orders : /\ order'[q].coupon = order[q].coupon
                          /\ order'[q].customer = order[q].customer
    BY <1>1, <1>5 DEF Deliver, CancelOrder, OrderRows
  <2> QED  BY <2>1 DEF RedemptionsBy, Redemptions
<1>6. ASSUME NEW r \in Requests, NEW o \in Orders, PlaceOrder(r, o)
      PROVE  Cardinality(RedemptionsBy(k, c)') <= PerUserLimit
  <2>1. /\ order'[o].coupon = request[r].coupon
        /\ order'[o].customer = request[r].customer
        /\ \A q \in Orders \ {o} : order'[q] = order[q]
    BY <1>1, <1>6 DEF PlaceOrder
  <2>2. RedemptionsBy(k, c)' \subseteq RedemptionsBy(k, c) \cup {o}
    BY <2>1 DEF RedemptionsBy, Redemptions
  <2>3. CASE request[r].coupon = k /\ request[r].customer = c
    <3>1. Cardinality(RedemptionsBy(k, c)) < PerUserLimit
      BY <1>6, <2>3, CheckoutAssumption DEF PlaceOrder, Redeemable
    <3>2. /\ IsFiniteSet(RedemptionsBy(k, c) \cup {o})
          /\ Cardinality(RedemptionsBy(k, c) \cup {o}) <= Cardinality(RedemptionsBy(k, c)) + 1
      <4> DEFINE used == RedemptionsBy(k, c)
      <4>1. IsFiniteSet(used) /\ Cardinality(used) \in Nat
        BY RedemptionsFinite
      <4> HIDE DEF used
      <4>2. /\ IsFiniteSet(used \cup {o})
            /\ Cardinality(used \cup {o}) \in {Cardinality(used), Cardinality(used) + 1}
        BY <4>1, FS_AddElement
      <4>3. Cardinality(used \cup {o}) <= Cardinality(used) + 1
        BY <4>1, <4>2
      <4> QED  BY <4>2, <4>3 DEF used
    <3>3. /\ Cardinality(RedemptionsBy(k, c)') <= Cardinality(RedemptionsBy(k, c) \cup {o})
          /\ Cardinality(RedemptionsBy(k, c)') \in Nat
      BY <2>2, <3>2, FS_Subset, FS_CardinalityType
    <3>4. Cardinality(RedemptionsBy(k, c) \cup {o}) \in Nat
      BY <3>2, FS_CardinalityType
    <3> QED  BY <3>1, <3>2, <3>3, <3>4, RedemptionsFinite, CheckoutAssumption
  <2>4. CASE ~(request[r].coupon = k /\ request[r].customer = c)
    <3>1. RedemptionsBy(k, c)' \subseteq RedemptionsBy(k, c)
      BY <2>1, <2>4 DEF RedemptionsBy, Redemptions
    <3>2. /\ Cardinality(RedemptionsBy(k, c)') <= Cardinality(RedemptionsBy(k, c))
          /\ Cardinality(RedemptionsBy(k, c)') \in Nat
      BY <3>1, RedemptionsFinite, FS_Subset, FS_CardinalityType
    <3> QED  BY <3>2, RedemptionsFinite, CheckoutAssumption DEF PerUserLimitKept
  <2> QED  BY <2>3, <2>4
<1> QED  BY <1>2, <1>3, <1>4, <1>5, <1>6, Movers

\* No customer uses a coupon more often than its per_user_limit allows, however
\* checkouts overlap and whatever the back office saves (the coupon's row lock).
THEOREM LimitKept == Spec => []PerUserLimitKept
<1>1. Spec => []TypeOK
  BY TypeCorrect
<1> QED  BY <1>1, LimitInit, LimitStep, PTL DEF Spec
-----------------------------------------------------------------------------
(* The limit of a coupon over all customers: neither the row nor a copy    *)
(* that the back office has read ever counts more uses than the limit.     *)

CountsWithin ==
    /\ \A k \in Coupons : coupon[k].used <= UsageLimit
    /\ \A e \in Editors : edit[e].used <= UsageLimit

\* Only these steps write a count.
LEMMA CountMovers ==
    ASSUME [Next]_vars
    PROVE  \/ UNCHANGED coupons
           \/ \E k \in Coupons, active \in BOOLEAN : SetCouponActive(k, active)
           \/ \E e \in Editors, k \in Coupons : OpenCoupon(e, k)
           \/ \E e \in Editors, active \in BOOLEAN : SaveCoupon(e, active)
           \/ \E r \in Requests, o \in Orders : PlaceOrder(r, o)
<1> USE DEF goods, baskets, orders
<1>1. CASE StoreNext
  <2>1. \A p \in Products, n \in 0..MaxStock : SetStock(p, n) => UNCHANGED coupons
    BY DEF SetStock
  <2>2. \A p \in Products, s \in Listings : SetListing(p, s) => UNCHANGED coupons
    BY DEF SetListing
  <2>3. \A n \in Nodes, p \in Products, new \in NodeRows :
            SetNodeRow(n, p, new) => UNCHANGED coupons
    BY DEF SetNodeRow
  <2> QED  BY <1>1, <2>1, <2>2, <2>3 DEF StoreNext
<1>2. CASE BasketNext
  <2>1. \A c \in Customers : ClearCart(c) => UNCHANGED coupons
    BY DEF ClearCart
  <2>2. \A c \in Customers, n \in Nodes : RefreshFulfillment(c, n) => UNCHANGED coupons
    BY DEF RefreshFulfillment
  <2>3. \A c \in Customers, o \in Orders : Reorder(c, o) => UNCHANGED coupons
    BY DEF Reorder
  <2>4. \A c \in Customers, p \in Products, quantity \in Quantities :
            SetQuantity(c, p, quantity) => UNCHANGED coupons
    BY DEF SetQuantity
  <2>5. \A c \in Customers, p \in Products, n \in Nodes \cup {NoNode} :
            CheckAdd(c, p, n) \/ FinishAdd(c, p, n) => UNCHANGED coupons
    BY DEF CheckAdd, FinishAdd
  <2>6. \A c \in Customers, p \in Products, n \in Nodes \cup {NoNode},
            quantity \in 1..MaxQuantity : ReplaceCart(c, p, quantity, n) => UNCHANGED coupons
    BY DEF ReplaceCart
  <2>7. UNCHANGED coupons
    BY <1>2, <2>1, <2>2, <2>3, <2>4, <2>5, <2>6, Zenon DEF BasketNext
  <2> QED  BY <2>7
<1>3. CASE CheckoutNext
  <2>1. CheckoutNext =>
            UNCHANGED coupons \/ \E r \in Requests, o \in Orders : PlaceOrder(r, o)
    BY DEF CheckoutNext, Replay, Submit, LockCart, FindEmpty, Refuse
  <2> QED  BY <1>3, <2>1
<1>4. ASSUME NEW o \in Orders, Deliver(o) \/ CancelOrder(o) PROVE UNCHANGED coupons
  BY <1>4 DEF Deliver, CancelOrder
<1>5. CASE UNCHANGED vars
  BY <1>5 DEF vars, coupons
<1> QED  BY <1>1, <1>2, <1>3, <1>4, <1>5 DEF Next

LEMMA CountsInit == Init => CountsWithin
BY CheckoutAssumption DEF Init, CountsWithin

LEMMA CountsStep == TypeOK /\ CountsWithin /\ [Next]_vars => CountsWithin'
<1> SUFFICES ASSUME TypeOK, CountsWithin, [Next]_vars PROVE CountsWithin'
  OBVIOUS
<1>0. /\ coupon \in [Coupons -> [active : BOOLEAN, used : Nat]]
      /\ edit \in [Editors -> [coupon : Coupons \cup {NoCoupon}, used : Nat]]
  BY DEF TypeOK
<1>1. CASE UNCHANGED coupons
  BY <1>1 DEF coupons, CountsWithin
<1>2. ASSUME NEW k \in Coupons, NEW active \in BOOLEAN, SetCouponActive(k, active)
      PROVE  CountsWithin'
  BY <1>0, <1>2 DEF SetCouponActive, CountsWithin
<1>3. ASSUME NEW e \in Editors, NEW k \in Coupons, OpenCoupon(e, k) PROVE CountsWithin'
  BY <1>0, <1>3 DEF OpenCoupon, CountsWithin
<1>4. ASSUME NEW e \in Editors, NEW active \in BOOLEAN, SaveCoupon(e, active)
      PROVE  CountsWithin'
  <2>1. coupon' = [coupon EXCEPT ![edit[e].coupon] = [active |-> active, used |-> edit[e].used]]
    BY <1>4 DEF SaveCoupon
  <2>2. \A k \in Coupons : coupon'[k] = coupon[k] \/ coupon'[k].used = edit[e].used
    BY <1>0, <2>1
  <2>3. \A f \in Editors : edit'[f] = edit[f] \/ edit'[f].used = 0
    BY <1>0, <1>4 DEF SaveCoupon
  <2> QED  BY <2>2, <2>3, CheckoutAssumption DEF CountsWithin
<1>5. ASSUME NEW r \in Requests, NEW o \in Orders, PlaceOrder(r, o) PROVE CountsWithin'
  <2>1. /\ Redeemable(request[r].coupon, request[r].customer)
        /\ edit' = edit
        /\ coupon' = [j \in Coupons |-> IF j = request[r].coupon
                                        THEN [coupon[j] EXCEPT !.used = @ + 1] ELSE coupon[j]]
    BY <1>5 DEF PlaceOrder
  <2>2. ASSUME NEW k \in Coupons  PROVE coupon'[k].used <= UsageLimit
    <3>1. CASE k # request[r].coupon
      BY <2>1, <3>1 DEF CountsWithin
    <3>2. CASE k = request[r].coupon
      <4>1. coupon[k].used < UsageLimit
        BY <2>1, <3>2, CheckoutAssumption DEF Redeemable
      <4>2. coupon'[k].used = coupon[k].used + 1
        BY <1>0, <2>1, <3>2
      <4>3. coupon[k].used \in Nat
        BY <1>0
      <4> QED  BY <4>1, <4>2, <4>3, CheckoutAssumption
    <3> QED  BY <3>1, <3>2
  <2> QED  BY <2>1, <2>2 DEF CountsWithin
<1> QED  BY <1>1, <1>2, <1>3, <1>4, <1>5, CountMovers

\* As long as the count of a coupon is that of its uses, the uses are within its
\* usage_limit, however many checkouts race for the last one (the coupon's row
\* lock) and whatever count an edit writes back.
THEOREM UsesLimited == Spec => []UsageLimitKept
<1>1. CountsWithin => UsageLimitKept
  BY DEF CountsWithin, UsageLimitKept
<1>2. Spec => []TypeOK
  BY TypeCorrect
<1> QED  BY <1>1, <1>2, CountsInit, CountsStep, PTL DEF Spec
-----------------------------------------------------------------------------
(* What checkout takes from a node: the sum of what the orders hold there  *)
(* and the units of its row.  An order that has no ledger holds nothing at *)
(* a node, whether it does not exist yet or is older than the ledger.      *)

LedgerFits ==
    \A o \in Orders : ledger[o] = "none" \/ Exists(o)

NoneOlderAtNode ==
    \A o \in Orders : ledger[o] = "none" => order[o].node = NoNode

HoldsAt(o, n, p) ==
    IF order[o].node = n /\ ledger[o] = "committed" THEN order[o].items[p] ELSE 0

LEMMA HeldInit == Init => LedgerFits /\ NoneOlderAtNode
<1> SUFFICES ASSUME Init PROVE LedgerFits /\ NoneOlderAtNode
  OBVIOUS
<1>1. PICK b \in Customers, items \in {i \in [Products -> Quantities] : OneStore(i)} :
          order = [o \in Orders |-> IF o \in LegacyOrders THEN LegacyRow(o, b, items)
                                                          ELSE NoOrder]
  BY DEF Init
<1>2. \A o \in Orders : order[o].node = NoNode
  BY <1>1 DEF LegacyRow, NoOrder
<1> QED  BY <1>2 DEF Init, LedgerFits, NoneOlderAtNode

\* What each step does to the ledger.
LEMMA LedgerMoves ==
    ASSUME TypeOK, [Next]_vars
    PROVE  \/ UNCHANGED ledger /\ \A o \in Orders : /\ order'[o].node = order[o].node
                                                    /\ Exists(o) => Exists(o)'
           \/ \E r \in Requests, o \in Orders : PlaceOrder(r, o)
           \/ \E o \in Orders : CancelOrder(o)
<1>1. order \in [Orders -> OrderRows]
  BY DEF TypeOK
<1>2. ASSUME NEW p \in Products, NEW n \in 0..MaxStock, SetStock(p, n)
      PROVE  UNCHANGED <<order, ledger>>
  BY <1>2 DEF SetStock, orders
<1>3. ASSUME NEW o \in Orders, Deliver(o)
      PROVE  UNCHANGED ledger /\ \A q \in Orders : /\ order'[q].node = order[q].node
                                                   /\ Exists(q) => Exists(q)'
  BY <1>1, <1>3 DEF Deliver, Exists, OrderRows
<1> QED  BY <1>2, <1>3, Movers DEF Exists

LEMMA PlacedRow ==
    ASSUME TypeOK, NEW r \in Requests, NEW o \in Orders, PlaceOrder(r, o)
    PROVE  /\ Exists(o)' /\ ledger'[o] = "committed"
           /\ order'[o].node = request[r].node /\ order'[o].items = request[r].items
           /\ \A q \in Orders \ {o} : order'[q] = order[q] /\ ledger'[q] = ledger[q]
BY DEF PlaceOrder, TypeOK, Exists

LEMMA CancelledRow ==
    ASSUME TypeOK, NEW o \in Orders, CancelOrder(o)
    PROVE  /\ Exists(o)' /\ ledger'[o] = "released"
           /\ order'[o].node = order[o].node /\ order'[o].items = order[o].items
           /\ \A q \in Orders \ {o} : order'[q] = order[q] /\ ledger'[q] = ledger[q]
<1>1. order \in [Orders -> OrderRows] /\ ledger \in [Orders -> {"none", "committed", "released"}]
  BY DEF TypeOK
<1> QED  BY <1>1 DEF CancelOrder, Exists, OrderRows

LEMMA HeldStep ==
    TypeOK /\ LedgerFits /\ NoneOlderAtNode /\ [Next]_vars
        => LedgerFits' /\ NoneOlderAtNode'
<1> SUFFICES ASSUME TypeOK, LedgerFits, NoneOlderAtNode, [Next]_vars
             PROVE  LedgerFits' /\ NoneOlderAtNode'
  OBVIOUS
<1>1. CASE UNCHANGED ledger /\ \A o \in Orders : /\ order'[o].node = order[o].node
                                                 /\ Exists(o) => Exists(o)'
  BY <1>1 DEF LedgerFits, NoneOlderAtNode
<1>2. ASSUME NEW r \in Requests, NEW o \in Orders, PlaceOrder(r, o)
      PROVE  LedgerFits' /\ NoneOlderAtNode'
  BY <1>2, PlacedRow DEF LedgerFits, NoneOlderAtNode, Exists
<1>3. ASSUME NEW o \in Orders, CancelOrder(o) PROVE LedgerFits' /\ NoneOlderAtNode'
  BY <1>3, CancelledRow DEF LedgerFits, NoneOlderAtNode, Exists
<1> QED  BY <1>1, <1>2, <1>3, LedgerMoves

\* When what one order holds at a node changes, the sum changes by as much.
LEMMA HeldChange ==
    ASSUME TypeOK, TypeOK', NEW o \in Orders, NEW n \in Nodes, NEW p \in Products,
           \A q \in Orders \ {o} : order'[q] = order[q] /\ ledger'[q] = ledger[q]
    PROVE  /\ HeldAt(n, p) \in Int /\ HoldsAt(o, n, p) \in Nat /\ HoldsAt(o, n, p)' \in Nat
           /\ HeldAt(n, p)' = HeldAt(n, p) + (HoldsAt(o, n, p)' - HoldsAt(o, n, p))
<1> DEFINE f == [q \in Orders |-> HoldsAt(q, n, p)]
           g == [q \in Orders |-> HoldsAt(q, n, p)']
<1>1. ASSUME NEW q \in Orders  PROVE HoldsAt(q, n, p) \in Nat /\ HoldsAt(q, n, p)' \in Nat
  <2>1. order[q].items[p] \in Nat
    BY OrderColumns
  <2>2. order'[q].items[p] \in Nat
    BY DEF TypeOK, OrderRows
  <2> QED  BY <2>1, <2>2 DEF HoldsAt
<1>2. ASSUME NEW q \in Orders \ {o}  PROVE f[q] = g[q]
  BY <1>2 DEF HoldsAt
<1>3. HeldAt(n, p) = SumFunction(f) /\ HeldAt(n, p)' = SumFunction(g)
  BY DEF HeldAt, HoldsAt
<1>4. /\ DOMAIN f = Orders /\ DOMAIN g = Orders /\ IsFiniteSet(Orders)
      /\ f[o] = HoldsAt(o, n, p) /\ g[o] = HoldsAt(o, n, p)'
      /\ \A q \in Orders : f[q] \in Int /\ g[q] \in Int
  BY <1>1, CheckoutAssumption
<1> HIDE DEF f, g
<1>5. SumFunction(f) \in Int
  BY <1>4, TotalInt
<1>6. SumFunction(g) = SumFunction(f) + (g[o] - f[o])
  BY <1>2, <1>4, TotalChange
<1> QED  BY <1>1, <1>3, <1>4, <1>5, <1>6

LEMMA ConservedStep ==
    ASSUME TypeOK, LedgerFits, NoneOlderAtNode, [Next]_vars,
           NEW n \in Nodes, NEW p \in Products,
           ledger' # ledger, row[n][p].exists, row'[n][p].exists
    PROVE  row'[n][p].stock + HeldAt(n, p)' = row[n][p].stock + HeldAt(n, p)
<1>1. TypeOK'
  BY TypeStep
<1>2. /\ row[n][p].stock \in Nat
      /\ row \in [Nodes -> [Products -> [exists : BOOLEAN, stock : Nat, available : BOOLEAN]]]
  BY DEF TypeOK
<1>3. n # NoNode
  BY CheckoutAssumption
<1>4. ASSUME NEW r \in Requests, NEW o \in Orders, PlaceOrder(r, o)
      PROVE  row'[n][p].stock + HeldAt(n, p)' = row[n][p].stock + HeldAt(n, p)
  <2> DEFINE taken == request[r].items[p]
  <2>1. request[r].items \in [Products -> Nat] /\ taken \in Nat
    BY RequestColumns
  <2>2. HoldsAt(o, n, p) = 0
    BY <1>4 DEF LedgerFits, HoldsAt, PlaceOrder
  <2>3. HoldsAt(o, n, p)' = IF request[r].node = n THEN taken ELSE 0
    BY <1>4, PlacedRow DEF HoldsAt
  <2>4. row'[n][p].stock = row[n][p].stock - (IF request[r].node = n THEN taken ELSE 0)
    <3>1. row' = [m \in Nodes |-> [q \in Products |->
              IF m = request[r].node /\ row[m][q].exists /\ q \in Wanted(request[r].items)
              THEN LET left == Less(row[m][q].stock, request[r].items[q])
                   IN  [exists |-> TRUE, stock |-> left, available |-> left > 0]
              ELSE row[m][q]]]
      BY <1>4 DEF PlaceOrder, TakeGoods
    <3>2. CASE n = request[r].node /\ taken > 0
      <4>1. row[n][p].stock >= taken
        BY <1>3, <1>4, <3>2 DEF PlaceOrder, NodeInStock, NodeHas, Wanted
      <4>2. p \in Wanted(request[r].items)
        BY <3>2 DEF Wanted
      <4>3. row'[n][p].stock = Less(row[n][p].stock, taken)
        BY <3>1, <3>2, <4>2
      <4> QED  BY <3>2, <4>1, <4>3 DEF Less
    <3>3. CASE ~(n = request[r].node /\ taken > 0)
      <4>1. row'[n][p] = row[n][p]
        BY <3>1, <3>3 DEF Wanted
      <4> QED  BY <1>2, <2>1, <3>3, <4>1
    <3> QED  BY <3>2, <3>3
  <2>5. /\ HeldAt(n, p) \in Int
        /\ HeldAt(n, p)' = HeldAt(n, p) + (HoldsAt(o, n, p)' - HoldsAt(o, n, p))
    BY <1>1, <1>4, HeldChange, PlacedRow
  <2> QED  BY <1>2, <2>1, <2>2, <2>3, <2>4, <2>5
<1>5. ASSUME NEW o \in Orders, CancelOrder(o)
      PROVE  row'[n][p].stock + HeldAt(n, p)' = row[n][p].stock + HeldAt(n, p)
  <2> DEFINE back == Releasable(o)[p]
  <2>1. order[o].items \in [Products -> Nat] /\ Releasable(o) \in [Products -> Nat]
    BY OrderColumns
  <2>2. HoldsAt(o, n, p)' = 0
    BY <1>5, CancelledRow DEF HoldsAt
  <2>3. HoldsAt(o, n, p) = IF order[o].node = n THEN back ELSE 0
    <3>1. ledger[o] \in {"none", "committed", "released"}
      BY DEF TypeOK
    <3> QED  BY <1>3, <3>1 DEF HoldsAt, Releasable, Nothing, NoneOlderAtNode
  <2>4. row'[n][p].stock = row[n][p].stock + (IF order[o].node = n THEN back ELSE 0)
    <3>1. row' = [m \in Nodes |-> [q \in Products |->
              IF m = order[o].node /\ row[m][q].exists /\ q \in Wanted(Releasable(o))
              THEN [exists |-> TRUE, stock |-> row[m][q].stock + Releasable(o)[q],
                    available |-> TRUE]
              ELSE row[m][q]]]
      BY <1>5 DEF CancelOrder, RestoreGoods
    <3>2. CASE n = order[o].node /\ back > 0
      <4>1. p \in Wanted(Releasable(o))
        BY <3>2 DEF Wanted
      <4> QED  BY <3>1, <3>2, <4>1
    <3>3. CASE ~(n = order[o].node /\ back > 0)
      <4>1. row'[n][p] = row[n][p]
        BY <3>1, <3>3 DEF Wanted
      <4> QED  BY <1>2, <2>1, <3>3, <4>1
    <3> QED  BY <3>2, <3>3
  <2>5. /\ HeldAt(n, p) \in Int
        /\ HeldAt(n, p)' = HeldAt(n, p) + (HoldsAt(o, n, p)' - HoldsAt(o, n, p))
    BY <1>1, <1>5, HeldChange, CancelledRow
  <2> QED  BY <1>2, <2>1, <2>2, <2>3, <2>4, <2>5
<1> QED  BY <1>4, <1>5, LedgerMoves

\* Checkout takes from a node's inventory row exactly what the order then holds
\* there, and a cancellation puts exactly that back, older orders included.
THEOREM NodeUnitsConserved == Spec => NodeStockConserved
<1> DEFINE Conserved ==
        \A n \in Nodes, p \in Products :
            ledger' # ledger /\ row[n][p].exists /\ row'[n][p].exists
                => row'[n][p].stock + HeldAt(n, p)' = row[n][p].stock + HeldAt(n, p)
<1>1. Spec => []TypeOK
  BY TypeCorrect
<1>2. Spec => [](LedgerFits /\ NoneOlderAtNode)
  BY <1>1, HeldInit, HeldStep, PTL DEF Spec
<1>3. TypeOK /\ LedgerFits /\ NoneOlderAtNode /\ [Next]_vars => Conserved
  BY ConservedStep
<1>4. NodeStockConserved <=> [][Conserved]_vars
  BY DEF NodeStockConserved
<1> HIDE DEF Conserved
<1> QED  BY <1>1, <1>2, <1>3, <1>4, PTL DEF Spec
=============================================================================
