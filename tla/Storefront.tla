----------------------------- MODULE Storefront -----------------------------
(***************************************************************************)
(* What a customer at one address is shown, and what the basket and the    *)
(* checkout then take.  Home and exploring                                 *)
(* (backend/actions/customer_flow/home.py, explore.py, location.py), the   *)
(* list of products (products/views/inventory.py), search                  *)
(* (products/views/search_views.py), a store's page and the lists of       *)
(* stores (vendors/views) each select products or stores by code of their  *)
(* own; the basket (orders/views/cart_views.py) and the checkout           *)
(* (orders/actions/checkout.py, ordering/create_orders.py) ask again.      *)
(*                                                                         *)
(* The public pages are answered from a cache (helpers/cache_helpers.py)   *)
(* that signals empty whenever a product or a store is saved.              *)
(*                                                                         *)
(* One unit of a product is ordered at once, above the store's minimum,    *)
(* with a far delivery confirmed and without a coupon.                     *)
(***************************************************************************)
EXTENDS Slots

CONSTANTS
    Stores, Goods, NodeIds,
    StoreOf,   \* Product.vendor
    Owner,     \* FulfillmentNode.vendor of a vendor_store, NoStore of a hub
    Sites,     \* where a customer may be: what reaches there
    NoStore, NoNode

ASSUME StorefrontAssumption ==
    /\ StoreOf \in [Goods -> Stores]
    /\ Owner \in [NodeIds -> Stores \cup {NoStore}]
    /\ NoStore \notin Stores /\ NoNode \notin NodeIds
    /\ \A s \in Sites : s.covered \subseteq s.rollout

VARIABLES
    has,      \* the checks that a store or a product passes
    on,       \* nodes that are active and accept orders
    onHand,   \* a product at a node: "none" without a row, "empty", "stocked"
    site,     \* the stores that reach the customer, nodes that cover and reach them
    saving,   \* a change of a store or a product: its transaction or its signal is open
    cache,    \* the answer that is cached, if any
    reader,   \* a request that missed and computes
    behind    \* the cached answer is known to be behind, see CacheFollows

shopVars  == <<has, on, onHand, site>>
cacheVars == <<saving, cache, reader, behind>>
storefrontVars == <<shopVars, cacheVars>>
-----------------------------------------------------------------------------
\* "listed": approved, active, available and with a catalog product.  "hours" and "workday"
\* (no holiday today) depend on the time.
StoreChecks == {"approved", "open", "intake", "hours", "workday"}
GoodChecks == {"listed", "instock", "category"}

Flags(v) == {"approved", "open", "intake"} \subseteq has[v]
IsOpenNow(v) == {"open", "intake", "hours"} \subseteq has[v]

\* ProductRepository.customer_visible_filter, and with it a category that customers see
Visible(g) == {"listed", "instock"} \subseteq has[g]
Browsable(g) == Visible(g) /\ "category" \in has[g]

IsHub(n) == n # NoNode /\ Owner[n] = NoStore

\* Mutant of AtNode: every node is a store's.
OwnedAtNode(g, n) == StoreOf[g] = Owner[n] /\ onHand[n][g] = "stocked"

\* for_fulfillment_node
AtNode(g, n) == (IsHub(n) \/ StoreOf[g] = Owner[n]) /\ onHand[n][g] = "stocked"

\* active_nodes_for_address and active_nodes_for_rollout_area
Covering == on \cap site.covered
Rollout == on \cap site.rollout

\* The node of a request, named by it or found for its address; NoNode where none covers it.
NodeHere(n) == IF n = NoNode THEN Covering = {} ELSE n \in on

VendorsAt(n) ==
    IF IsHub(n)
    THEN {v \in Stores : Flags(v) /\ \E g \in Goods :
             StoreOf[g] = v /\ Browsable(g) /\ onHand[n][g] = "stocked"}
    ELSE {Owner[n]}

\* Stores that are open and reach the customer from where they are.
Near == {v \in Stores : Flags(v) /\ IsOpenNow(v) /\ v \in site.reached}

\* serviceability_payload: nodes with a store that is open; else, where no node is rolled
\* out, the stores themselves.  Which of them is nearest is left open.
Promises(n) ==
    IF n = NoNode THEN Near
    ELSE {v \in VendorsAt(n) : n \in Covering \cap site.quoted /\ Flags(v) /\ IsOpenNow(v)}

Promised(n) ==
    /\ Promises(n) # {}
    /\ n = NoNode => Rollout = {}
-----------------------------------------------------------------------------
(* The pages: the products that each shows to a customer who was promised, *)
(* or whose request names, the node n.                                     *)

StoresOnHome(n, nearest) ==
    CASE n = NoNode -> Near \cap {nearest}
      [] IsHub(n)   -> Near \cap VendorsAt(n)
      [] OTHER      -> Near \cap {Owner[n]}

\* Products are not filtered by stores where there is none.
Home(n) ==
    {g \in Goods :
        /\ Promised(n)
        /\ Browsable(g) /\ Flags(StoreOf[g])
        /\ IsHub(n) => onHand[n][g] = "stocked"
        /\ \E nearest \in Promises(n) :
              LET stores == StoresOnHome(n, nearest)
              IN  stores # {} => StoreOf[g] \in stores}

\* The node whose products it shows is the first that is found, promised or not.
Explore(n) ==
    {g \in Goods :
        /\ Promised(n)
        /\ Visible(g) /\ StoreOf[g] \in Near
        /\ Covering # {} => \E m \in Covering : AtNode(g, m)}

\* _filter_customer_products_for_request
List(n) ==
    {g \in Goods :
        /\ NodeHere(n) /\ Visible(g)
        /\ IF n = NoNode THEN Rollout = {} /\ StoreOf[g] \in Near ELSE AtNode(g, n)}

\* ProductSearchByLocationView
Search(n) ==
    {g \in Goods :
        /\ NodeHere(n) /\ Visible(g)
        /\ {"approved", "intake"} \subseteq has[StoreOf[g]]
        /\ StoreOf[g] \in site.reached
        /\ IF n = NoNode THEN Rollout = {} ELSE AtNode(g, n)}

\* VendorDetailView; a node that is off is forgotten.
StorePage(n) ==
    {g \in Goods :
        /\ n = NoNode => NodeHere(n)
        /\ Browsable(g)
        /\ "approved" \in has[StoreOf[g]] /\ StoreOf[g] \in site.reached
        /\ n \in on => AtNode(g, n)}

\* VendorRecommendationsView: the picks of a store's page, wherever it delivers
Picks(n) ==
    {g \in Goods :
        /\ n = NoNode => NodeHere(n)
        /\ Browsable(g) /\ "approved" \in has[StoreOf[g]]
        /\ n \in on => AtNode(g, n)}

\* GetCustomerBuyAgainAction, to a customer who has ordered everything
BuyAgain == {g \in Goods : Visible(g) /\ {"approved", "intake"} \subseteq has[StoreOf[g]]}

\* CategoryListView: the products on whose account a category is listed
Shelved(n) ==
    {g \in Goods :
        /\ NodeHere(n) /\ Browsable(g)
        /\ "approved" \in has[StoreOf[g]] /\ StoreOf[g] \in site.reached
        /\ IF n = NoNode THEN Rollout = {} ELSE onHand[n][g] = "stocked"}

\* _filter_vendors_for_fulfillment_node
SellsAt(v, n) ==
    IF n = NoNode THEN Rollout = {}
    ELSE IF IsHub(n) THEN \E g \in Goods : StoreOf[g] = v /\ Visible(g) /\ onHand[n][g] = "stocked"
    ELSE v = Owner[n]

\* VendorListView and NearbyVendorsView
StoreList(n) == {v \in Stores : NodeHere(n) /\ SellsAt(v, n) /\ Flags(v) /\ v \in site.reached}
NearbyStores(n) ==
    {v \in Stores : NodeHere(n) /\ SellsAt(v, n) /\ "approved" \in has[v] /\ v \in site.instant}

Views == {"home", "explore", "list", "search", "store", "picks", "again", "categories"}

Page(view, n) ==
    CASE view = "home"    -> Home(n)
      [] view = "explore" -> Explore(n)
      [] view = "list"    -> List(n)
      [] view = "search"  -> Search(n)
      [] view = "store"   -> StorePage(n)
      [] view = "picks"   -> Picks(n)
      [] view = "again"   -> BuyAgain
      [] view = "categories" -> Shelved(n)
-----------------------------------------------------------------------------
(* The basket and the checkout.                                            *)

\* Why AddToCartView and CreateOrdersFromCartAction refuse one unit of a product with the
\* promise of a node; a product without a row there is sold from the store's stock.
StoreRefusals(v) ==
    {c \in {"open", "intake", "hours", "workday"} : c \notin has[v]}
        \cup (IF v \in site.reached THEN {} ELSE {"range"})

Refusals(g, n) ==
    {c \in {"listed", "instock"} : c \notin has[g]}
        \cup StoreRefusals(StoreOf[g])
        \cup (IF n = NoNode \/ (n \in on /\ (IsHub(n) \/ StoreOf[g] = Owner[n])) THEN {} ELSE {"node"})
        \cup (IF n # NoNode /\ onHand[n][g] = "empty" THEN {"row"} ELSE {})
-----------------------------------------------------------------------------
(* The cache.                                                              *)

NoPage == [key |-> <<>>, page |-> {}]

CachedViews == {"list", "search", "store"}

\* Mutant of Key: the parameters are left out.
KeyOfView(view, n) == <<view>>

\* _cache_key: the view and the canonical query
Key(view, n) == <<view, n>>

NotSaving == [row |-> NoStore, check |-> "none", state |-> "none"]
NotReading == [key |-> <<>>, page |-> {}, outrun |-> FALSE]

StorefrontTypeOK ==
    /\ has \in [Stores \cup Goods -> SUBSET (StoreChecks \cup GoodChecks)]
    /\ on \subseteq NodeIds
    /\ onHand \in [NodeIds -> [Goods -> {"none", "empty", "stocked"}]]
    /\ site \in Sites
    /\ saving = NotSaving \/ (/\ saving.row \in Stores \cup Goods
                              /\ saving.state \in {"uncommitted", "unsignalled"})
    /\ cache.page \subseteq Goods
    /\ reader.page \subseteq Goods
    /\ behind \in BOOLEAN

StorefrontInit ==
    /\ has = [x \in Stores \cup Goods |-> IF x \in Stores THEN StoreChecks ELSE GoodChecks]
    /\ on = NodeIds
    /\ onHand = [n \in NodeIds |-> [g \in Goods |-> "stocked"]]
    /\ site \in Sites
    /\ saving = NotSaving
    /\ cache = NoPage
    /\ reader = NotReading
    /\ behind = FALSE

Toggled(x, c) == [has EXCEPT ![x] = (@ \ {c}) \cup ({c} \ @)]

\* What a request has read is no longer so ...
Outrun == reader' = IF reader = NotReading THEN reader ELSE [reader EXCEPT !.outrun = TRUE]

\* ... and neither is what is cached, and no signal is to come.
Outdated == Outrun /\ behind' = (cache # NoPage)

Saved(x) == IF x \in Stores THEN StoreChecks \ {"hours"} ELSE GoodChecks

Emptied == cache' = NoPage /\ behind' = FALSE

\* A save inside a transaction: its signal empties the cache before the commit ...
SaveInTransaction(x, c) ==
    /\ saving = NotSaving /\ c \in Saved(x)
    /\ saving' = [row |-> x, check |-> c, state |-> "uncommitted"]
    /\ Emptied
    /\ UNCHANGED <<shopVars, reader>>

EndTransaction(commits) ==
    /\ saving.state = "uncommitted"
    /\ saving' = NotSaving
    /\ IF commits THEN has' = Toggled(saving.row, saving.check) /\ Outdated
                  ELSE UNCHANGED <<has, reader, behind>>
    /\ UNCHANGED <<on, onHand, site, cache>>

\* ... and a save outside commits before its signal, which may fail in silence.
SaveAlone(x, c) ==
    /\ saving = NotSaving /\ c \in Saved(x)
    /\ has' = Toggled(x, c)
    /\ saving' = [row |-> x, check |-> c, state |-> "unsignalled"]
    /\ Outrun
    /\ UNCHANGED <<on, onHand, site, cache, behind>>

Signal(reached) ==
    /\ saving.state = "unsignalled"
    /\ saving' = NotSaving
    /\ IF reached THEN Emptied ELSE cache' = cache /\ behind' = (cache # NoPage)
    /\ UNCHANGED <<shopVars, reader>>

\* Without a signal: a cancelled order gives its unit back, ...
RestoreUnit(g) ==
    /\ "instock" \notin has[g] /\ saving.row # g
    /\ has' = Toggled(g, "instock")
    /\ Outdated
    /\ UNCHANGED <<on, onHand, site, saving, cache>>

\* ... nodes and their rows are edited or sold from, ...
SetNode(n) ==
    /\ on' = (on \ {n}) \cup ({n} \ on)
    /\ Outdated
    /\ UNCHANGED <<has, onHand, site, saving, cache>>

SetOnHand(n, g, s) ==
    /\ s # onHand[n][g]
    /\ onHand' = [onHand EXCEPT ![n][g] = s]
    /\ Outdated
    /\ UNCHANGED <<has, on, site, saving, cache>>

\* ... and time passes.
TimePasses(v, c) ==
    /\ c \in {"hours", "workday"}
    /\ <<saving.row, saving.check>> # <<v, c>>
    /\ has' = Toggled(v, c)
    /\ Outdated
    /\ UNCHANGED <<on, onHand, site, saving, cache>>

\* cached_api_response: a request that misses reads, computes ...
ReadPage(view, n) ==
    /\ reader = NotReading /\ cache.key # Key(view, n)
    /\ reader' = [key |-> Key(view, n), page |-> Page(view, n), outrun |-> FALSE]
    /\ UNCHANGED <<shopVars, saving, cache, behind>>

\* ... and stores what it has computed, whatever happened meanwhile.
KeepPage ==
    /\ reader # NotReading
    /\ cache' = [key |-> reader.key, page |-> reader.page]
    /\ behind' = reader.outrun
    /\ reader' = NotReading
    /\ UNCHANGED <<shopVars, saving>>

Expire ==
    /\ cache # NoPage
    /\ Emptied
    /\ UNCHANGED <<shopVars, saving, reader>>
-----------------------------------------------------------------------------
StorefrontNext ==
    \/ \E x \in Stores \cup Goods, c \in StoreChecks \cup GoodChecks :
          SaveInTransaction(x, c) \/ SaveAlone(x, c)
    \/ \E commits \in BOOLEAN : EndTransaction(commits)
    \/ \E reached \in BOOLEAN : Signal(reached)
    \/ \E g \in Goods : RestoreUnit(g)
    \/ \E n \in NodeIds : SetNode(n) \/ \E g \in Goods, s \in {"none", "empty", "stocked"} : SetOnHand(n, g, s)
    \/ \E v \in Stores, c \in StoreChecks : TimePasses(v, c)
    \/ \E view \in CachedViews, n \in NodeIds \cup {NoNode} : ReadPage(view, n)
    \/ KeepPage
    \/ Expire

StorefrontSpec == StorefrontInit /\ [][StorefrontNext]_storefrontVars
-----------------------------------------------------------------------------
(* Properties.                                                             *)

\* What a page does not ask: holidays, all of them; and see the README for the others.
Overlooked(view, n) ==
    {"workday"} \cup
    CASE view = "home"    -> (IF n # NoNode /\ ~IsHub(n) THEN {"row"} ELSE {})
                             \cup (IF n # NoNode /\ StoresOnHome(n, NoStore) = {}
                                   THEN {"range", "hours", "node"} ELSE {})
      [] view = "explore" -> IF Covering \subseteq {n} THEN {} ELSE {"node", "row"}
      [] view = "list"    -> IF n = NoNode THEN {} ELSE {"open", "intake", "hours", "range"}
      [] view = "search"  -> {"open", "hours"}
      [] view = "store"   -> {"open", "intake", "hours"}
                             \cup (IF n \in on \cup {NoNode} THEN {} ELSE {"node", "row"})
      [] view = "picks"   -> {"open", "intake", "hours", "range"}
                             \cup (IF n \in on \cup {NoNode} THEN {} ELSE {"node", "row"})
      [] view = "again"   -> {"open", "hours", "range", "node", "row"}
      [] view = "categories" -> {"open", "intake", "hours"}
                                \cup (IF n = NoNode \/ IsHub(n) THEN {} ELSE {"node"})

\* A product that a page shows can be ordered with the node the page was made for, but
\* for what that page does not ask: what is off sale or sold out is never shown, and a
\* store that is listed takes orders and delivers there in its hours.
ShownCanBeOrdered ==
    \A n \in NodeIds \cup {NoNode} :
        /\ \A view \in Views :
              UNION {Refusals(g, n) : g \in Page(view, n)} \subseteq Overlooked(view, n)
        /\ \A v \in StoreList(n) : StoreRefusals(v) \subseteq {"hours", "workday"}

\* What can be ordered from an approved store is found: on the list, by search, on the
\* store's page and, without a node, by exploring; and the store is on the lists of stores.
OrderableIsShown ==
    \A n \in NodeIds \cup {NoNode}, g \in Goods :
        /\ Refusals(g, n) = {} /\ "approved" \in has[StoreOf[g]]
        /\ IF n = NoNode THEN Rollout = {} ELSE onHand[n][g] = "stocked"
        => LET v == StoreOf[g] IN
           /\ g \in List(n) \cap Search(n)
           /\ "category" \in has[g] => g \in StorePage(n) \cap Picks(n) \cap Shelved(n)
           /\ n = NoNode => g \in Explore(n)
           /\ v \in StoreList(n)
           /\ v \in site.instant => v \in NearbyStores(n)

\* The pages and the checkout agree, in both directions, and so do the slots.
PagesAgree == ShownCanBeOrdered /\ OrderableIsShown /\ SlotsHonoured

\* A request is answered from the cache with the page as it is, unless rows have changed
\* that no signal tells of, the signal of a change is still to come or was lost, or the
\* answer was computed before a change and stored, or was still there, after its signal.
CacheFollows ==
    cache # NoPage /\ ~behind /\ saving.state # "unsignalled" =>
        \A view \in CachedViews, n \in NodeIds \cup {NoNode} :
            Key(view, n) = cache.key => cache.page = Page(view, n)
=============================================================================
