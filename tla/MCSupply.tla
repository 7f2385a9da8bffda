------------------------------ MODULE MCSupply ------------------------------
(***************************************************************************)
(* Small instances of Catalog, Nodes, Quotes and Suggestions, checked in   *)
(* one run.  They share no state, so a behaviour moves only one of them    *)
(* away from its initial states.  Restrictions keep the instance small.    *)
(* In Catalog decisions on a proposal are made before the first product    *)
(* exists, only one product is edited a third time, nobody reviews while   *)
(* the offer is withdrawn, and the item is changed before a second         *)
(* product or a proposal exists.  In Nodes two states of the store stand   *)
(* for all, in one of which nothing is ordered or edited, a node has both  *)
(* switches on or off, the back office does not edit while it backfills,   *)
(* and nothing is ordered, edited or reserved at a node that is not the    *)
(* store's alone.  In Quotes a wallet amount is spent with one basket      *)
(* only, a quote that is out of date is tried only at a store that is open *)
(* and has the goods, where alone orders are accepted, and the customer is *)
(* short of money or points only while a quote is current or nothing is in *)
(* the basket.  In Suggestions one product is ordered once.                *)
(***************************************************************************)
EXTENDS Catalog, Nodes, Quotes, Suggestions, TLC

CONSTANTS p1, p2, w1, w2, n1, n2, q1, q2, q3, q4, o1, o2, gone

TwoProducts == {p1, p2}
TwoReviewers == {w1, w2}
TwoNodeOrders == {n1, n2}

Alike == Permutations(TwoNodeOrders)

Plain == [base |-> 3000, perKm |-> 550, freeAbove |-> 0, platform |-> 0, packaging |-> 0,
          threshold |-> 0, smallFee |-> 0, surge |-> 0, tax |-> 0]
TwoSettings == {Plain, [Plain EXCEPT !.freeAbove = 20001, !.platform = 500, !.packaging = 250,
                                     !.threshold = 10000, !.smallFee = 900, !.surge = 1000,
                                     !.tax = 500]}

OfSize(paise, count) ==
    [subtotal |-> paise, units |-> count, kg |-> 1, fragile |-> FALSE, cold |-> FALSE]
SomeBaskets == {OfSize(101, 1), OfSize(10000, 16), OfSize(20001, 8), [OfSize(9999, 1) EXCEPT !.kg = 40]}

SomeCoupons == [kind : {"percentage"}, value : {50}, cap : {0, 1000}, least : {101}]
                  \cup [kind : {"fixed"}, value : {5000}, cap : {0}, least : {200}]
                  \cup [kind : {"free_delivery"}, value : {0}, cap : {0}, least : {0}]
SomePlaces == [distance : {201, 1000}, sameState : {TRUE}] \cup [distance : {2001}, sameState : BOOLEAN]

FourWares == {q1, q2, q3, q4}
TwoShops == {o1, o2}
WareShops == q1 :> o1 @@ q2 :> o1 @@ q3 :> o1 @@ q4 :> o2
WareBrands == q1 :> 1 @@ q2 :> 2 @@ q3 :> 2 @@ q4 :> 1
WareRank == <<q1, q2, q3, q4>>
ShopRating == <<o1, o2>>
ShopDistance == <<o2, o1>>
SomeOrders == {<<>>, <<q3>>}
\* The service may name what is gone, or one product twice.
SomeAnswers == {<<>>, <<q4, gone, q2, q4>>}
SomeShopAnswers == {<<>>, <<gone, o2>>}
SomeSizes == [refresh |-> 3, shelf |-> 3, recommended |-> 3, deals |-> 2,
              ordered |-> 1, featured |-> 1, popular |-> 2, selected |-> 3,
              home |-> 1, pool |-> 2]

ProposalDone == proposal \in {"none", "approved"} /\ \A a \in Reviewers : deciding[a] = NoDecision
NoProductYet == \A p \in Products : product[p].approval = "none"
OneProduct == \E p \in Products : product[p].approval = "none"
NoReview == \A a \in Reviewers : listing[a] = NoListing

CatalogSmall ==
    \/ NoProductYet
    \/ /\ ProposalDone
       /\ Offered \/ (NoReview /\ editor = NoEditor)
       /\ OneProduct \/ (edits <= 2 /\ editor = NoEditor)
       /\ offer.content > 0 => OneProduct /\ proposal = "none"

Full == [approved |-> TRUE, open |-> TRUE, intake |-> TRUE]

NodesSmall ==
    /\ row.stock <= 2 /\ goods.stock <= 2
    /\ ~(editing.on /\ filling.on)
    /\ node.accepting = node.active
    /\ \/ ~node.exists \/ (node.vendor = "store" /\ node.vendorStore /\ ~foreign)
       \/ /\ ~editing.on /\ row.stock <= 1 /\ row.reserved = 0 /\ goods.listed
          /\ filling.on => filling.sync
          /\ \A o \in NodeOrders : sale[o].state = "none"
    /\ \/ keeper = Full
       \/ /\ keeper = [Full EXCEPT !.approved = FALSE, !.open = FALSE]
          /\ ~editing.on /\ \A o \in NodeOrders : sale[o].state = "none"

Rich == [balance |-> 5000, points |-> 10]

QuotesSmall ==
    /\ shown # NothingShown =>
          /\ shown.wallet > 0 => basket.subtotal \in {0, 20001}
          /\ shown.current \/ store = [open |-> TRUE, stocked |-> TRUE]
    /\ \/ funds = Rich
       \/ basket = NoBasket /\ shown = NothingShown
       \/ shown # NothingShown /\ shown.current

CatalogStep == CatalogNext /\ CatalogSmall'
NodesStep == NodesNext /\ NodesSmall'
QuotesStep == QuotesNext /\ QuotesSmall'

\* One initial state of each, for as long as another moves.
NodesAtRest == NodesInit /\ keeper = Full
QuotesAtRest == QuotesInit /\ settings = Plain /\ chosen.place.distance = 201 /\ funds = Rich

SupplyInit ==
    /\ CatalogInit /\ SuggestionsInit
    /\ \/ NodesInit /\ NodesSmall /\ QuotesAtRest
       \/ NodesAtRest /\ QuotesInit /\ QuotesSmall

SupplyNext ==
    \/ /\ NodesAtRest /\ QuotesAtRest /\ SuggestionsInit
       /\ CatalogStep /\ UNCHANGED <<nodeVars, quoteVars, suggestionVars>>
    \/ /\ CatalogInit /\ QuotesAtRest /\ SuggestionsInit
       /\ NodesStep /\ UNCHANGED <<catalogVars, quoteVars, suggestionVars>>
    \/ /\ CatalogInit /\ NodesAtRest /\ SuggestionsInit
       /\ QuotesStep /\ UNCHANGED <<catalogVars, nodeVars, suggestionVars>>
    \/ /\ CatalogInit /\ NodesAtRest /\ QuotesAtRest
       /\ SuggestionsNext /\ UNCHANGED <<catalogVars, nodeVars, quoteVars>>

SupplySpec == SupplyInit /\ [][SupplyNext]_<<catalogVars, nodeVars, quoteVars, suggestionVars>>

\* The types of the four modules.
SupplyTypeOK == CatalogTypeOK /\ NodesTypeOK /\ QuotesTypeOK /\ SuggestionsTypeOK
=============================================================================
