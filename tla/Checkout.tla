------------------------------ MODULE Checkout ------------------------------
(***************************************************************************)
(* Baskets, checkout and stock (orders/views/cart_views.py,                *)
(* orders/actions/ordering/create_orders.py,                               *)
(* orders/actions/inventory_reservations.py, products/actions/inventory.py *)
(* and orders/views/coupon_views.py).                                      *)
(*                                                                         *)
(* Basket views take no lock: what an add has checked is in `adding` until *)
(* it writes.  A checkout looks its idempotency key up, waits for the cart *)
(* row, reads the basket, and then does the rest under the row locks of    *)
(* the products, the coupon and the node's inventory, as one step.         *)
(***************************************************************************)
EXTENDS Integers, FiniteSetsExt

CONSTANTS
    Customers,
    Products,
    VendorOf,        \* the store that sells a product
    Nodes,           \* fulfilment nodes
    Orders,          \* primary keys
    Requests,        \* checkout requests that can be in flight at once
    Keys,            \* idempotency keys
    Coupons,
    Editors,         \* back-office edits of a coupon in progress at once
    LegacyOrders,    \* orders older than the reservation ledger
    Nobody, NoKey, NoNode, NoCoupon,
    MaxStock,        \* cap on what a stocktake or a node row can say
    MaxQuantity,     \* cap on the quantity of a basket line
    UsageLimit,      \* Coupon.usage_limit
    PerUserLimit     \* Coupon.per_user_limit

ASSUME CheckoutAssumption ==
    /\ Nobody \notin Customers
    /\ NoKey \notin Keys
    /\ NoNode \notin Nodes
    /\ NoCoupon \notin Coupons
    /\ LegacyOrders \subseteq Orders
    /\ IsFiniteSet(Orders)
    /\ MaxStock \in Nat
    /\ MaxQuantity \in Nat \ {0}
    /\ UsageLimit \in Nat
    /\ PerUserLimit \in Nat

VARIABLES
    stock,      \* Product.stock
    listing,    \* Product.status, with everything that hides a product as "hidden"
    row,        \* FulfillmentNodeInventory rows
    basket,     \* quantities in a customer's cart
    lockedTo,   \* Cart.fulfillment_node
    adding,     \* basket adds that have passed their checks and not written yet
    request,    \* checkout requests
    order,      \* orders with their items
    ledger,     \* state of an order's inventory reservations
    coupon,     \* is_active and used_count
    edit        \* coupon rows that the back office has read and not saved yet

vars == <<stock, listing, row, basket, lockedTo, adding, request, order, ledger,
          coupon, edit>>

goods == <<stock, listing, row>>
baskets == <<basket, lockedTo, adding>>
orders == <<order, ledger>>
coupons == <<coupon, edit>>
-----------------------------------------------------------------------------
Quantities == 0..MaxQuantity

Nothing == [p \in Products |-> 0]

Wanted(items) == {p \in Products : items[p] > 0}

Listings == {"active", "sold_out", "hidden"}

InFlight == {"waiting", "holding"}

NoRow == [exists |-> FALSE, stock |-> 0, available |-> FALSE]

NoOrder == [status |-> "none", customer |-> Nobody, key |-> NoKey, node |-> NoNode,
            coupon |-> NoCoupon, items |-> Nothing]

NoRequest == [at |-> "idle", customer |-> Nobody, key |-> NoKey, coupon |-> NoCoupon,
              items |-> Nothing, node |-> NoNode]

OrderRows == [status   : {"none", "open", "delivered", "cancelled"},
              customer : Customers \cup {Nobody},
              key      : Keys \cup {NoKey},
              node     : Nodes \cup {NoNode},
              coupon   : Coupons \cup {NoCoupon},
              items    : [Products -> Nat]]

RequestRows == [at       : {"idle", "waiting", "holding", "ordered", "empty", "refused"},
                customer : Customers \cup {Nobody},
                key      : Keys \cup {NoKey},
                coupon   : Coupons \cup {NoCoupon},
                items    : [Products -> Nat],
                node     : Nodes \cup {NoNode}]

TypeOK == /\ stock \in [Products -> Nat]
          /\ listing \in [Products -> Listings]
          /\ row \in [Nodes -> [Products ->
                 [exists : BOOLEAN, stock : Nat, available : BOOLEAN]]]
          /\ basket \in [Customers -> [Products -> Nat]]
          /\ lockedTo \in [Customers -> Nodes \cup {NoNode}]
          /\ adding \subseteq Customers \X Products \X (Nodes \cup {NoNode})
          /\ request \in [Requests -> RequestRows]
          /\ \A r \in Requests : request[r].at \in InFlight => request[r].customer \in Customers
          /\ order \in [Orders -> OrderRows]
          /\ ledger \in [Orders -> {"none", "committed", "released"}]
          /\ coupon \in [Coupons -> [active : BOOLEAN, used : Nat]]
          /\ edit \in [Editors -> [coupon : Coupons \cup {NoCoupon}, used : Nat]]

\* Mutant of OneStore: lines of several stores are taken for one order.
AnyStores(items) == TRUE

\* validate_single_vendor_cart.
OneStore(items) == \A p, q \in Wanted(items) : VendorOf[p] = VendorOf[q]

\* An order placed before reservations were kept has items and no ledger.
LegacyRow(o, c, items) == [NoOrder EXCEPT !.status = "open", !.customer = c, !.items = items]

Init == /\ stock \in [Products -> 0..MaxStock]
        /\ listing = [p \in Products |-> "active"]
        /\ row = [n \in Nodes |-> [p \in Products |-> NoRow]]
        /\ basket = [c \in Customers |-> Nothing]
        /\ lockedTo = [c \in Customers |-> NoNode]
        /\ adding = {}
        /\ request = [r \in Requests |-> NoRequest]
        /\ \E c \in Customers : \E items \in {i \in [Products -> Quantities] : OneStore(i)} :
              order = [o \in Orders |-> IF o \in LegacyOrders THEN LegacyRow(o, c, items)
                                                              ELSE NoOrder]
        /\ ledger = [o \in Orders |-> "none"]
        /\ coupon = [k \in Coupons |-> [active |-> TRUE, used |-> 0]]
        /\ edit = [e \in Editors |-> [coupon |-> NoCoupon, used |-> 0]]

Exists(o) == order[o].status # "none"

OrdersOf(c, key) == {o \in Orders : Exists(o) /\ order[o].customer = c /\ order[o].key = key}

\* _validate_node_inventory: a product without a row of its own is not limited.
NodeHas(n, p, quantity) ==
    n # NoNode /\ row[n][p].exists
        => row[n][p].available /\ row[n][p].stock >= quantity

CartLocked(c) == \E r \in Requests : request[r].at = "holding" /\ request[r].customer = c
-----------------------------------------------------------------------------
(* The store and the back office.                                          *)

\* UpdateStockAction and BulkUpdateStockAction; a sold out product stays so.
SetStock(p, n) ==
    /\ stock' = [stock EXCEPT ![p] = n]
    /\ UNCHANGED <<listing, row, baskets, request, orders, coupons>>

\* UpdateVendorProductAction and product review.
SetListing(p, s) ==
    /\ listing' = [listing EXCEPT ![p] = s]
    /\ UNCHANGED <<stock, row, baskets, request, orders, coupons>>

\* The back office creates, saves or deletes an inventory row of a node.
SetNodeRow(n, p, new) ==
    /\ row' = [row EXCEPT ![n][p] = new]
    /\ UNCHANGED <<stock, listing, baskets, request, orders, coupons>>

\* VendorCouponAction, under the coupon's lock.
SetCouponActive(k, active) ==
    /\ coupon' = [coupon EXCEPT ![k].active = active]
    /\ UNCHANGED <<goods, baskets, request, orders, edit>>

\* AdminCouponViewSet reads the row ...
OpenCoupon(e, k) ==
    /\ edit[e].coupon = NoCoupon
    /\ edit' = [edit EXCEPT ![e] = [coupon |-> k, used |-> coupon[k].used]]
    /\ UNCHANGED <<goods, baskets, request, orders, coupon>>

\* ... and saves all of it, the used_count it has read included.
SaveCoupon(e, active) ==
    /\ edit[e].coupon # NoCoupon
    /\ coupon' = [coupon EXCEPT ![edit[e].coupon] = [active |-> active, used |-> edit[e].used]]
    /\ edit' = [edit EXCEPT ![e] = [coupon |-> NoCoupon, used |-> 0]]
    /\ UNCHANGED <<goods, baskets, request, orders>>
-----------------------------------------------------------------------------
(* The customer's basket.                                                  *)

\* AddToCartView up to add_item: the checks, on rows nobody locks.
CheckAdd(c, p, n) ==
    /\ listing[p] = "active"
    /\ n = NoNode \/ lockedTo[c] \in {n, NoNode}
    /\ \A q \in Wanted(basket[c]) : VendorOf[q] = VendorOf[p]
    /\ basket[c][p] + 1 <= stock[p]
    /\ NodeHas(n, p, basket[c][p] + 1)
    /\ adding' = adding \cup {<<c, p, n>>}
    /\ UNCHANGED <<goods, basket, lockedTo, request, orders, coupons>>

\* add_item and _lock_cart_fulfillment.  A new line refers to the cart and waits
\* for its lock, and so does the cart row; a line that is there does not.
FinishAdd(c, p, n) ==
    /\ <<c, p, n>> \in adding
    /\ CartLocked(c) => n = NoNode /\ basket[c][p] > 0
    /\ basket[c][p] < MaxQuantity
    /\ basket' = [basket EXCEPT ![c][p] = @ + 1]
    /\ lockedTo' = IF n = NoNode THEN lockedTo ELSE [lockedTo EXCEPT ![c] = n]
    /\ adding' = adding \ {<<c, p, n>>}
    /\ UNCHANGED <<goods, request, orders, coupons>>

\* UpdateCartItemView: a line gets another quantity, or goes.
SetQuantity(c, p, quantity) ==
    /\ basket[c][p] > 0
    /\ quantity > 0 => quantity <= stock[p] /\ NodeHas(lockedTo[c], p, quantity)
    /\ basket' = [basket EXCEPT ![c][p] = quantity]
    /\ lockedTo' = IF basket'[c] = Nothing THEN [lockedTo EXCEPT ![c] = NoNode]
                                           ELSE lockedTo
    /\ UNCHANGED <<goods, adding, request, orders, coupons>>

ClearCart(c) ==
    /\ basket' = [basket EXCEPT ![c] = Nothing]
    /\ lockedTo' = [lockedTo EXCEPT ![c] = NoNode]
    /\ UNCHANGED <<goods, adding, request, orders, coupons>>

\* ReplaceCartView, whose transaction waits for a checkout to end: the new line
\* refers to the cart.
ReplaceCart(c, p, quantity, n) ==
    /\ ~CartLocked(c)
    /\ listing[p] = "active"
    /\ quantity <= stock[p]
    /\ NodeHas(n, p, quantity)
    /\ basket' = [basket EXCEPT ![c] = [Nothing EXCEPT ![p] = quantity]]
    /\ lockedTo' = [lockedTo EXCEPT ![c] = n]
    /\ UNCHANGED <<goods, adding, request, orders, coupons>>

\* RefreshCartFulfillmentView.
RefreshFulfillment(c, n) ==
    /\ ~CartLocked(c)
    /\ Wanted(basket[c]) # {}
    /\ lockedTo[c] \in {n, NoNode}
    /\ \A p \in Wanted(basket[c]) : NodeHas(n, p, basket[c][p])
    /\ lockedTo' = [lockedTo EXCEPT ![c] = n]
    /\ UNCHANGED <<goods, basket, adding, request, orders, coupons>>

\* ReorderAction: what can still be had of an earlier order replaces the basket.
Reorder(c, o) ==
    LET again == {p \in Wanted(order[o].items) : listing[p] = "active" /\ stock[p] >= 1} IN
    /\ Exists(o)
    /\ order[o].customer = c
    /\ ~CartLocked(c)
    /\ again # {}
    /\ basket' = [basket EXCEPT ![c] =
           [p \in Products |-> IF p \notin again THEN 0
                               ELSE IF order[o].items[p] <= stock[p] THEN order[o].items[p]
                               ELSE stock[p]]]
    /\ lockedTo' = [lockedTo EXCEPT ![c] = NoNode]
    /\ UNCHANGED <<goods, adding, request, orders, coupons>>
-----------------------------------------------------------------------------
(* Checkout: CreateOrdersFromCartAction.                                   *)

\* The request ends; its customer's cart is no longer locked.
Answer(r, answer) ==
    request' = [request EXCEPT ![r] = [NoRequest EXCEPT !.at = answer]]

\* A key that has orders answers with them.
Replay(r, c, key) ==
    /\ request[r].at \notin InFlight
    /\ key # NoKey
    /\ OrdersOf(c, key) # {}
    /\ Answer(r, "ordered")
    /\ UNCHANGED <<goods, baskets, orders, coupons>>

Submit(r, c, key, k) ==
    /\ request[r].at \notin InFlight
    /\ key = NoKey \/ OrdersOf(c, key) = {}
    /\ request' = [request EXCEPT ![r] =
           [NoRequest EXCEPT !.at = "waiting", !.customer = c, !.key = key, !.coupon = k]]
    /\ UNCHANGED <<goods, baskets, orders, coupons>>

\* The cart row is locked and its items, which are not, are read.
LockCart(r) ==
    LET c == request[r].customer IN
    /\ request[r].at = "waiting"
    /\ ~CartLocked(c)
    /\ basket[c] # Nothing
    /\ request' = [request EXCEPT ![r] =
           [@ EXCEPT !.at = "holding", !.items = basket[c], !.node = lockedTo[c]]]
    /\ UNCHANGED <<goods, baskets, orders, coupons>>

\* "Cart is empty."
FindEmpty(r) ==
    LET c == request[r].customer IN
    /\ request[r].at = "waiting"
    /\ ~CartLocked(c)
    /\ basket[c] = Nothing
    /\ Answer(r, "empty")
    /\ UNCHANGED <<goods, baskets, orders, coupons>>

\* Any other ValueError: address, hours, minimum, quote, stock, coupon, and the
\* IntegrityError of a key used meanwhile.  The transaction is rolled back.
Refuse(r) ==
    /\ request[r].at \in InFlight
    /\ Answer(r, "refused")
    /\ UNCHANGED <<goods, baskets, orders, coupons>>

\* _is_orderable_product.
Orderable(p) == listing[p] = "active"

\* Mutant of InStock: the quantity asked for is not compared.
SomeInStock(items) == \A p \in Wanted(items) : stock[p] > 0

InStock(items) == \A p \in Wanted(items) : stock[p] >= items[p]

\* Mutant of NodeInStock: a row that says it is available is believed.
NodeAvailable(n, items) ==
    \A p \in Wanted(items) : n # NoNode /\ row[n][p].exists => row[n][p].available

NodeInStock(n, items) == \A p \in Wanted(items) : NodeHas(n, p, items[p])

Redemptions(k) == {o \in Orders : order[o].coupon = k}

RedemptionsBy(k, c) == {o \in Redemptions(k) : order[o].customer = c}

\* Mutant of Redeemable: the customer's earlier uses are not counted.
RedeemableByAll(k, c) == k # NoCoupon => coupon[k].active /\ coupon[k].used < UsageLimit

\* Mutant of Redeemable: the platform's count is compared with <=.
RedeemableOnceMore(k, c) ==
    k # NoCoupon => /\ coupon[k].active
                    /\ coupon[k].used <= UsageLimit
                    /\ Cardinality(RedemptionsBy(k, c)) < PerUserLimit

Redeemable(k, c) ==
    k # NoCoupon => /\ coupon[k].active
                    /\ coupon[k].used < UsageLimit
                    /\ Cardinality(RedemptionsBy(k, c)) < PerUserLimit

\* Mutant of KeyIsFree: the database does not enforce it.
KeyIsAnything(c, key, items) == TRUE

\* unique_order_idempotency_per_customer_vendor.
KeyIsFree(c, key, items) ==
    key # NoKey => \A o \in OrdersOf(c, key) : \A p \in Wanted(order[o].items) :
                       \A q \in Wanted(items) : VendorOf[p] # VendorOf[q]

Less(n, taken) == IF n >= taken THEN n - taken ELSE 0

\* DecreaseStockAction for every line, and the node's rows with it.
TakeGoods(items, n) ==
    /\ stock' = [p \in Products |-> Less(stock[p], items[p])]
    /\ listing' = [p \in Products |->
           IF p \in Wanted(items) /\ stock'[p] = 0 /\ listing[p] = "active"
           THEN "sold_out" ELSE listing[p]]
    /\ row' = [m \in Nodes |-> [p \in Products |->
           IF m = n /\ row[m][p].exists /\ p \in Wanted(items)
           THEN LET left == Less(row[m][p].stock, items[p])
                IN  [exists |-> TRUE, stock |-> left, available |-> left > 0]
           ELSE row[m][p]]]

\* The basket is emptied, with whatever was put in since it was read.
PlaceOrder(r, o) ==
    LET c == request[r].customer
        items == request[r].items
        n == request[r].node
        k == request[r].coupon IN
    /\ request[r].at = "holding"
    /\ ~Exists(o)
    /\ \A p \in Wanted(items) : Orderable(p)
    /\ OneStore(items)
    /\ Redeemable(k, c)
    /\ InStock(items)
    /\ NodeInStock(n, items)
    /\ KeyIsFree(c, request[r].key, items)
    /\ TakeGoods(items, n)
    /\ order' = [order EXCEPT ![o] =
           [status |-> "open", customer |-> c, key |-> request[r].key, node |-> n,
            coupon |-> k, items |-> items]]
    /\ ledger' = [ledger EXCEPT ![o] = "committed"]
    /\ coupon' = [j \in Coupons |-> IF j = k THEN [coupon[j] EXCEPT !.used = @ + 1]
                                             ELSE coupon[j]]
    /\ basket' = [basket EXCEPT ![c] = Nothing]
    /\ lockedTo' = [lockedTo EXCEPT ![c] = NoNode]
    /\ Answer(r, "ordered")
    /\ UNCHANGED <<adding, edit>>
-----------------------------------------------------------------------------
(* The end of an order.                                                    *)

Deliver(o) ==
    /\ order[o].status = "open"
    /\ order' = [order EXCEPT ![o].status = "delivered"]
    /\ UNCHANGED <<goods, baskets, request, ledger, coupons>>

\* restore_product and restore_node.
RestoreGoods(items, n) ==
    /\ stock' = [p \in Products |-> stock[p] + items[p]]
    /\ listing' = [p \in Products |->
           IF p \in Wanted(items) /\ listing[p] = "sold_out" THEN "active" ELSE listing[p]]
    /\ row' = [m \in Nodes |-> [p \in Products |->
           IF m = n /\ row[m][p].exists /\ p \in Wanted(items)
           THEN [exists |-> TRUE, stock |-> row[m][p].stock + items[p], available |-> TRUE]
           ELSE row[m][p]]]

\* What release_order gives back; committed_for_release makes a ledger for an
\* order that has none.
Releasable(o) == IF ledger[o] = "released" THEN Nothing ELSE order[o].items

\* Mutant of CancelOrder: an order that was delivered can be cancelled.
CancelAny(o) ==
    /\ order[o].status \in {"open", "delivered"}
    /\ order' = [order EXCEPT ![o].status = "cancelled"]
    /\ RestoreGoods(Releasable(o), order[o].node)
    /\ ledger' = [ledger EXCEPT ![o] = "released"]
    /\ UNCHANGED <<baskets, request, coupons>>

\* CancelOrderAction, the vendor's and the back office's cancellation, with
\* release_order in OrderCancellationEffectsAction.
CancelOrder(o) ==
    /\ order[o].status = "open"
    /\ order' = [order EXCEPT ![o].status = "cancelled"]
    /\ RestoreGoods(Releasable(o), order[o].node)
    /\ ledger' = [ledger EXCEPT ![o] = "released"]
    /\ UNCHANGED <<baskets, request, coupons>>
-----------------------------------------------------------------------------
NodeRows == {NoRow} \cup [exists : {TRUE}, stock : 0..MaxStock, available : BOOLEAN]

StoreNext ==
    \/ \E p \in Products : \/ \E n \in 0..MaxStock : SetStock(p, n)
                           \/ \E s \in Listings : SetListing(p, s)
    \/ \E n \in Nodes, p \in Products : \E new \in NodeRows : SetNodeRow(n, p, new)
    \/ \E k \in Coupons, active \in BOOLEAN : SetCouponActive(k, active)
    \/ \E e \in Editors : \/ \E k \in Coupons : OpenCoupon(e, k)
                          \/ \E active \in BOOLEAN : SaveCoupon(e, active)

BasketNext ==
    \E c \in Customers :
        \/ ClearCart(c)
        \/ \E n \in Nodes : RefreshFulfillment(c, n)
        \/ \E o \in Orders : Reorder(c, o)
        \/ \E p \in Products :
              \/ \E quantity \in Quantities : SetQuantity(c, p, quantity)
              \/ \E n \in Nodes \cup {NoNode} :
                    \/ CheckAdd(c, p, n)
                    \/ FinishAdd(c, p, n)
                    \/ \E quantity \in 1..MaxQuantity : ReplaceCart(c, p, quantity, n)

CheckoutNext ==
    \E r \in Requests :
        \/ \E c \in Customers, key \in Keys \cup {NoKey} :
              \/ Replay(r, c, key)
              \/ \E k \in Coupons \cup {NoCoupon} : Submit(r, c, key, k)
        \/ LockCart(r)
        \/ FindEmpty(r)
        \/ Refuse(r)
        \/ \E o \in Orders : PlaceOrder(r, o)

Next == \/ StoreNext
        \/ BasketNext
        \/ CheckoutNext
        \/ \E o \in Orders : Deliver(o) \/ CancelOrder(o)

Spec == Init /\ [][Next]_vars
-----------------------------------------------------------------------------
(* Properties.                                                             *)

\* However requests with the same idempotency key overlap, and whatever is put
\* into the basket between them, a customer has one order of a store for a key:
\* unique_order_idempotency_per_customer_vendor behind the lookup that
\* CreateOrdersFromCartAction makes before it waits for the cart.
OneOrderPerKey ==
    \A c \in Customers, key \in Keys : \A o1, o2 \in OrdersOf(c, key) :
        o1 # o2 => \A p \in Wanted(order[o1].items), q \in Wanted(order[o2].items) :
                       VendorOf[p] # VendorOf[q]

\* Two adds that overlap can leave lines of two stores in a basket, each having
\* seen it without the other's; no order has them.
SingleStoreOrders ==
    \A o \in Orders : \A p, q \in Products :
        order[o].items[p] > 0 /\ order[o].items[q] > 0 => VendorOf[p] = VendorOf[q]

\* No customer uses a coupon more often than its per_user_limit, which counts
\* CouponUsage rows under the coupon's lock.
PerUserLimitKept ==
    \A k \in Coupons, c \in Customers : Cardinality(RedemptionsBy(k, c)) <= PerUserLimit

\* However many checkouts try at once, a coupon is used no more often than its
\* usage_limit, unless an edit in the back office has reset the count.
UsageLimitKept ==
    \A k \in Coupons : coupon[k].used = Cardinality(Redemptions(k))
                          => Cardinality(Redemptions(k)) <= UsageLimit

HeldAt(n, p) ==
    SumFunction([o \in Orders |-> IF order[o].node = n /\ ledger[o] = "committed"
                                  THEN order[o].items[p] ELSE 0])

\* What checkout takes from a node's inventory row is what the order holds there,
\* and a cancellation puts exactly that back: stock and held units of a row that
\* stays add up to the same over every step of either.
NodeStockConserved ==
    [][\A n \in Nodes, p \in Products :
          ledger' # ledger /\ row[n][p].exists /\ row'[n][p].exists
              => row'[n][p].stock + HeldAt(n, p)' = row[n][p].stock + HeldAt(n, p)]_vars

\* The goods in a store behave as ShelfContract says: checkout takes exactly the
\* units of an order and never more than there are, a cancellation puts them back
\* once, and baskets and requests move nothing.
Shelf == INSTANCE ShelfContract
    WITH shelf <- stock,
         phase <- [o \in Orders |-> IF Exists(o) THEN order[o].status ELSE "absent"],
         held <- [o \in Orders |-> Releasable(o)]

ImplementsShelf == Shelf!Spec
=============================================================================
