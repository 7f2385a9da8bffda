-------------------------------- MODULE Nodes --------------------------------
(***************************************************************************)
(* The stock of a fulfilment node: vendors/actions/fulfillment_backfill.py *)
(* fills it from the store, vendors/views/fulfillment_admin.py edits it,   *)
(* orders take from it (create_orders.py) and return to it                 *)
(* (inventory_reservations.py), and fulfillment_readiness.py judges        *)
(* whether the store may be sold through nodes.                            *)
(*                                                                         *)
(* Orders lock the inventory row; the backfill and the editor read it,     *)
(* and the product, without a lock and save what they computed from it.    *)
(* One store with one product and one node, which has the code that a      *)
(* backfill gives it; one other vendor, to whom the back office may hand   *)
(* the node, and whose product it may put there.  An archived product,     *)
(* which a backfill skips, is left out.  Baskets, requests and the goods   *)
(* of several products are in Checkout.                                    *)
(***************************************************************************)
EXTENDS Integers, FiniteSets, Functions

CONSTANTS
    NodeOrders,     \* orders of the product through the node
    MaxUnits        \* bound on stocks and quantities

ASSUME NodesAssumption == MaxUnits \in Nat /\ IsFiniteSet(NodeOrders)

VARIABLES
    keeper,     \* Vendor: status, is_open, is_accepting_orders
    goods,      \* Product: stock, and whether it is active, approved and available
    node,       \* FulfillmentNode
    row,        \* FulfillmentNodeInventory of the product
    foreign,    \* is there a row of the other vendor's product at the node?
    sale,       \* orders with their reservation
    editing,    \* the stock in the inventory row that the back office's editor has read
    filling,    \* what the backfill has found, and what it is going to write
    counted     \* what the last count put into the row, and whether it is unreliable:
                \* computed from what others changed before it was saved

nodeVars == <<keeper, goods, node, row, foreign, sale, editing, filling, counted>>
-----------------------------------------------------------------------------
Units == 0..MaxUnits
Larger(m, n) == IF m > n THEN m ELSE n

KeeperRows == [approved : BOOLEAN, open : BOOLEAN, intake : BOOLEAN]
Owners == {"store", "other", "none"}
NodeRows == [exists : BOOLEAN, active : BOOLEAN, accepting : BOOLEAN,
             vendor : Owners, vendorStore : BOOLEAN]
InventoryRows == [exists : BOOLEAN, stock : Nat, reserved : Units, available : BOOLEAN]

NoNodeRow == [exists |-> FALSE, active |-> FALSE, accepting |-> FALSE,
              vendor |-> "none", vendorStore |-> FALSE]
NoRow == [exists |-> FALSE, stock |-> 0, reserved |-> 0, available |-> FALSE]
NotEditing == [on |-> FALSE, stock |-> 0, moved |-> FALSE]

\* Of an order: its units; whether it still refers to the node; and whether its units left
\* the row, or came to it, since the last count.
SaleRows == [state : {"none", "held", "returned"}, units : Units, atNode : BOOLEAN,
             left : BOOLEAN, came : BOOLEAN]

Fillings == [on : BOOLEAN, sync : BOOLEAN, moved : BOOLEAN, nodeFound : BOOLEAN,
             rowFound : BOOLEAN, node : NodeRows, stock : Nat, available : BOOLEAN]

NotFilling == [on |-> FALSE, sync |-> FALSE, moved |-> FALSE, nodeFound |-> FALSE,
               rowFound |-> FALSE, node |-> NoNodeRow, stock |-> 0, available |-> FALSE]

NodesTypeOK ==
    /\ keeper \in KeeperRows
    /\ goods \in [stock : Nat, listed : BOOLEAN]
    /\ node \in NodeRows
    /\ row \in InventoryRows
    /\ foreign \in BOOLEAN
    /\ sale \in [NodeOrders -> SaleRows]
    /\ editing \in [on : BOOLEAN, stock : Nat, moved : BOOLEAN]
    /\ filling \in Fillings
    /\ counted \in [units : Nat, unreliable : BOOLEAN]

NodesInit ==
    /\ keeper \in KeeperRows
    /\ goods = [stock |-> MaxUnits, listed |-> TRUE]
    /\ node = NoNodeRow
    /\ row = NoRow
    /\ foreign = FALSE
    /\ sale = [o \in NodeOrders |-> [state |-> "none", units |-> 0, atNode |-> FALSE,
                                     left |-> FALSE, came |-> FALSE]]
    /\ editing = NotEditing
    /\ filling = NotFilling
    /\ counted = [units |-> 0, unreliable |-> FALSE]

\* What has been read by those who have not saved yet is out of date.
Moved == /\ editing' = [editing EXCEPT !.moved = editing.on]
         /\ filling' = [filling EXCEPT !.moved = filling.on]

\* The units in the row are counted anew.
Recount(units, unreliable) ==
    /\ counted' = [units |-> units, unreliable |-> unreliable]
    /\ sale' = [o \in NodeOrders |-> [sale[o] EXCEPT !.left = FALSE, !.came = FALSE]]
-----------------------------------------------------------------------------
(* Orders.                                                                 *)

\* Mutant of Sellable: the store's stock, where the node's is meant.
SellableOfStore == goods.stock

\* FulfillmentNodeInventory.sellable_stock, but for the floor of 0 that no use of it needs
Sellable == row.stock - row.reserved

\* CreateOrdersFromCartAction for a cart locked to the node: without a row of its own a
\* product is not limited by the node.  DecreaseStockAction follows.
TakeUnits(o, units) ==
    /\ sale[o].state = "none"
    /\ node.active /\ node.accepting
    /\ goods.listed /\ units <= goods.stock
    /\ row.exists => row.available /\ Sellable >= units
    /\ row' = IF row.exists
              THEN [row EXCEPT !.stock = @ - units, !.available = row.stock > units]
              ELSE row
    /\ goods' = [goods EXCEPT !.stock = @ - units]
    /\ sale' = [sale EXCEPT ![o] = [state |-> "held", units |-> units, atNode |-> TRUE,
                                    left |-> row.exists, came |-> FALSE]]
    /\ Moved
    /\ UNCHANGED <<keeper, node, foreign, counted>>

\* Mutant of Returnable: whatever the reservation's status.
ReturnableAgain(o) == sale[o].state # "none"

\* committed_for_release: only a committed reservation is released.
Returnable(o) == sale[o].state = "held"

\* ReservationInventoryAction.release_order: restore_product and, if the node still has a
\* row, restore_node, which makes it available whoever withdrew it.
ReturnUnits(o) ==
    /\ Returnable(o)
    /\ goods' = [goods EXCEPT !.stock = @ + sale[o].units]
    /\ LET restored == sale[o].atNode /\ row.exists IN
       /\ row' = IF restored THEN [row EXCEPT !.stock = @ + sale[o].units, !.available = TRUE]
                 ELSE row
       /\ sale' = [sale EXCEPT ![o].state = "returned",
                               ![o].left = @ /\ ~restored,
                               ![o].came = restored /\ ~sale[o].left]
    /\ Moved
    /\ UNCHANGED <<keeper, node, foreign, counted>>
-----------------------------------------------------------------------------
(* The store.                                                              *)

\* Statuses and switches of the vendor, stock and listing of the product.
UpdateStore(approved, open, intake) ==
    /\ keeper' = [approved |-> approved, open |-> open, intake |-> intake]
    /\ keeper' # keeper
    /\ Moved
    /\ UNCHANGED <<goods, node, row, foreign, sale, counted>>

UpdateGoods(units, listed) ==
    /\ goods' = [stock |-> units, listed |-> listed]
    /\ goods' # goods
    /\ Moved
    /\ UNCHANGED <<keeper, node, row, foreign, sale, counted>>
-----------------------------------------------------------------------------
(* The back office's node and inventory views.                             *)

\* AdminFulfillmentNodeListCreateView.post and AdminFulfillmentNodeDetailView.patch
\* (FulfillmentNodeSerializer): only a node of another type may be nobody's.
SaveNode(active, accepting, vendor, vendorStore) ==
    /\ vendorStore => vendor # "none"
    /\ node' = [exists |-> TRUE, active |-> active, accepting |-> accepting,
                vendor |-> vendor, vendorStore |-> vendorStore]
    /\ node' # node
    /\ Moved
    /\ UNCHANGED <<keeper, goods, row, foreign, sale, counted>>

\* AdminFulfillmentNodeDetailView.delete takes the rows along, and orders forget the node.
DeleteNode ==
    /\ node.exists
    /\ node' = NoNodeRow
    /\ row' = NoRow /\ foreign' = FALSE
    /\ sale' = [o \in NodeOrders |-> [sale[o] EXCEPT !.atNode = FALSE, !.left = FALSE,
                                                     !.came = FALSE]]
    /\ counted' = [units |-> 0, unreliable |-> FALSE]
    /\ Moved
    /\ UNCHANGED <<keeper, goods>>

\* The inventory views take any product at any node: one of another vendor comes or goes.
SetForeign(stocked) ==
    /\ node.exists
    /\ foreign' = stocked /\ foreign' # foreign
    /\ UNCHANGED <<keeper, goods, node, row, sale, editing, filling, counted>>

\* AdminFulfillmentNodeInventoryListCreateView.post
CreateRow(units, reserved, available) ==
    /\ node.exists
    /\ ~row.exists
    /\ reserved <= units
    /\ row' = [exists |-> TRUE, stock |-> units, reserved |-> reserved, available |-> available]
    /\ Recount(units, FALSE)
    /\ Moved
    /\ UNCHANGED <<keeper, goods, node, foreign>>

\* AdminFulfillmentNodeInventoryDetailView.delete
DeleteRow ==
    /\ row.exists
    /\ row' = NoRow
    /\ Recount(0, FALSE)
    /\ Moved
    /\ UNCHANGED <<keeper, goods, node, foreign>>

\* AdminFulfillmentNodeInventoryDetailView.patch reads the row ...
EditReads ==
    /\ ~editing.on
    /\ row.exists
    /\ editing' = [on |-> TRUE, stock |-> row.stock, moved |-> FALSE]
    /\ UNCHANGED <<keeper, goods, node, row, foreign, sale, filling, counted>>

\* ... and saves all of it, inserting it if it has been deleted: a stock that the request
\* states is a count, otherwise the one that was read is written back.
EditSaves(stated, units, reserved, available) ==
    LET stock == IF stated THEN units ELSE editing.stock IN
    /\ editing.on
    /\ node.exists
    /\ reserved <= stock
    /\ row' = [exists |-> TRUE, stock |-> stock, reserved |-> reserved, available |-> available]
    /\ IF stated \/ ~row.exists \/ editing.moved
       THEN Recount(stock, ~stated /\ editing.moved)
       ELSE UNCHANGED <<counted, sale>>
    /\ editing' = NotEditing
    /\ filling' = [filling EXCEPT !.moved = filling.on]
    /\ UNCHANGED <<keeper, goods, node, foreign>>
-----------------------------------------------------------------------------
(* BackfillVendorFulfillmentNodesAction.                                   *)

\* _node_payload, which is also what a node in maintenance is set to.
NodePayload == [exists      |-> TRUE,
                active      |-> keeper.approved /\ keeper.open,
                accepting   |-> keeper.approved /\ keeper.intake,
                vendor      |-> "store",
                vendorStore |-> TRUE]

\* _product_available_for_node
AvailableForNode == goods.listed /\ goods.stock > 0

\* Mutant of FillStock: without the floor of what is reserved.
FillWithoutFloor == goods.stock

FillStock == Larger(row.reserved, goods.stock)

\* execute, with sync_existing or without, for an approved vendor or a chosen one: the
\* vendor, its node, the rows of the node and the products are read ...
BackfillReads(sync) ==
    /\ ~filling.on
    /\ filling' = [on |-> TRUE, sync |-> sync, moved |-> FALSE, nodeFound |-> node.exists,
                   rowFound |-> row.exists, node |-> NodePayload, stock |-> FillStock,
                   available |-> AvailableForNode]
    /\ UNCHANGED <<keeper, goods, node, row, foreign, sale, editing, counted>>

\* ... and written in one transaction, which fails when a row that was read has gone or
\* one that was missing has come.  _find_existing_node finds a node by its code whosever it
\* is, and _sync_node leaves it to whom it belongs.
BackfillCommits ==
    /\ filling.on
    /\ node.exists = filling.nodeFound
    /\ filling.sync \/ ~filling.rowFound => row.exists = filling.rowFound
    /\ node' = IF ~node.exists THEN filling.node
               ELSE IF filling.sync THEN [filling.node EXCEPT !.vendor = node.vendor]
               ELSE node
    /\ IF filling.sync \/ ~filling.rowFound
       THEN /\ row' = [exists    |-> TRUE,
                       stock     |-> filling.stock,
                       reserved  |-> row.reserved,
                       available |-> filling.available]
            /\ Recount(filling.stock, filling.moved)
       ELSE UNCHANGED <<row, counted, sale>>
    /\ filling' = NotFilling
    /\ editing' = [editing EXCEPT !.moved = editing.on]
    /\ UNCHANGED <<keeper, goods, foreign>>

\* It fails, or was a dry run.
BackfillRollsBack ==
    /\ filling.on
    /\ filling' = NotFilling
    /\ UNCHANGED <<keeper, goods, node, row, foreign, sale, editing, counted>>
-----------------------------------------------------------------------------
(* FulfillmentReadinessAuditAction.                                        *)

OpenForOrders == node.exists /\ node.active /\ node.accepting

MissingNode ==
    keeper.approved /\ ~(OpenForOrders /\ node.vendor = "store" /\ node.vendorStore)

MissingInventory ==
    /\ keeper.approved /\ goods.listed /\ goods.stock > 0
    /\ ~(OpenForOrders /\ row.exists /\ row.available /\ row.stock > 0 /\ Sellable > 0)

OverReserved == row.reserved > row.stock

\* vendor_node_mismatches
Mismatched ==
    node.vendorStore /\ ((node.vendor = "other" /\ row.exists) \/ (node.vendor = "store" /\ foreign))

\* status is ready or ready_with_warnings
AuditReady == ~MissingNode /\ ~MissingInventory /\ ~OverReserved /\ ~Mismatched
-----------------------------------------------------------------------------
NodesNext ==
    \/ \E o \in NodeOrders : (\E units \in 1..MaxUnits : TakeUnits(o, units)) \/ ReturnUnits(o)
    \/ \E approved, open, intake \in BOOLEAN : UpdateStore(approved, open, intake)
    \/ \E units \in Units, listed \in BOOLEAN : UpdateGoods(units, listed)
    \/ \E active, accepting, vendorStore \in BOOLEAN, vendor \in Owners :
          SaveNode(active, accepting, vendor, vendorStore)
    \/ DeleteNode
    \/ \E stocked \in BOOLEAN : SetForeign(stocked)
    \/ \E units, reserved \in Units, available \in BOOLEAN :
          \/ CreateRow(units, reserved, available)
          \/ \E stated \in BOOLEAN : EditSaves(stated, units, reserved, available)
    \/ DeleteRow
    \/ EditReads
    \/ \E sync \in BOOLEAN : BackfillReads(sync)
    \/ BackfillCommits
    \/ BackfillRollsBack

NodesSpec == NodesInit /\ [][NodesNext]_nodeVars
-----------------------------------------------------------------------------
(* Properties.                                                             *)

UnitsOf(orders) == SumFunctionOnSet([o \in NodeOrders |-> sale[o].units], orders)

\* What a node's row says is what was last counted, less the units that orders took since
\* and plus the units they returned, through any order of checkouts, cancellations, edits
\* and backfills; unless that count was computed from numbers that something changed
\* before it was saved, which the unlocked editor and backfill can do.
NodeCountsKept ==
    row.exists /\ ~counted.unreliable =>
        row.stock + UnitsOf({o \in NodeOrders : sale[o].left})
            = counted.units + UnitsOf({o \in NodeOrders : sale[o].came})

\* The backfill and the audit agree: after a backfill that synchronises the store of an
\* approved vendor, with both switches on, the audit of the store finds nothing critical,
\* unless something changed while the backfill ran, all of the stock is reserved, the back
\* office has taken the node from the store, or it has put another vendor's product there.
\* A backfill repairs neither of the last two.
BackfillMakesReady == [][
    (BackfillCommits /\ filling.sync /\ ~filling.moved
       /\ keeper = [approved |-> TRUE, open |-> TRUE, intake |-> TRUE]
       /\ (goods.stock = 0 \/ row.reserved < goods.stock)
       /\ (node.exists => node.vendor = "store") /\ ~foreign) => AuditReady']_nodeVars
=============================================================================
