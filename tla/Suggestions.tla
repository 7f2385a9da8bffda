---------------------------- MODULE Suggestions ----------------------------
(***************************************************************************)
(* What a customer is recommended.  A job ranks products and stores for    *)
(* each customer and stores the ranking                                    *)
(* (orders/actions/customer_recommendations.py); pages put what they show  *)
(* anyway into its order (backend/actions/customer_flow/home.py,           *)
(* vendors/views/discovery_views.py, vendors/views/recommendation_views.py) *)
(* however old it is by then.  A ranking service takes part, which may     *)
(* answer with anything or nothing.                                        *)
(*                                                                         *)
(* One customer, with an address.  Lists are sequences.  A refresh replaces *)
(* the whole ranking, so that one is enough.  An id of the service that is *)
(* not even a UUID raises, and is left out.                                *)
(***************************************************************************)
EXTENDS Integers, Sequences, SequencesExt, FiniteSetsExt, Functions

CONSTANTS
    Wares,      \* products
    Shops,      \* stores
    ShopOf,     \* the store of each product
    ByRank,     \* all products, in the order in which queries list them
    ByRating,   \* all stores, in that order, and ...
    ByDistance, \* ... from the nearest
    Local,      \* stores in the city of the address
    Featured,   \* products that their stores promote
    Discounted, \* products cheaper than their compare_price, ...
    Marked,     \* ... and those with a compare_price
    Brand,      \* the brand and category of each product
    Orders,     \* what the customer may have ordered, from the last item on
    Answers,    \* of the service about products and ...
    ShopAnswers, \* ... about stores
    Sizes       \* how long lists may be

ASSUME SuggestionsAssumption ==
    /\ ShopOf \in [Wares -> Shops] /\ Local \subseteq Shops
    /\ ByRank \in Seq(Wares) /\ ByRating \in Seq(Shops) /\ ByDistance \in Seq(Shops)
    /\ ToSet(ByRank) = Wares /\ ToSet(ByRating) = Shops /\ ToSet(ByDistance) = Shops
    /\ IsInjective(ByRank) /\ IsInjective(ByRating) /\ IsInjective(ByDistance)
    /\ Featured \subseteq Wares /\ Discounted \subseteq Marked /\ Marked \subseteq Wares
    /\ <<>> \in Answers /\ <<>> \in ShopAnswers
    /\ \A a \in Answers \cup ShopAnswers : a \in Seq(ToSet(a))
    /\ <<>> \in Orders /\ Orders \subseteq Seq(Wares)
    /\ Sizes \in [refresh : Nat, shelf : Nat, recommended : Nat, deals : Nat,
                  ordered : Nat, featured : Nat, popular : Nat, selected : Nat,
                  home : Nat, pool : Nat]
    /\ Sizes.popular <= Sizes.selected

VARIABLES
    sold,       \* products that are visible to customers
    opened,     \* stores that are approved, open and accepting orders
    ordered,    \* the customer's order items, the last one first
    refresh,    \* what the job has ranked so far
    ranking     \* CustomerRecommendationSnapshot

suggestionVars == <<sold, opened, ordered, refresh, ranking>>
-----------------------------------------------------------------------------
\* What list has of set, in its order
Only(list, set) ==
    LET kept[i \in 0..Len(list)] == IF i = 0 THEN <<>>
                                    ELSE IF list[i] \in set THEN Append(kept[i - 1], list[i])
                                    ELSE kept[i - 1]
    IN  kept[Len(list)]
Without(list, set) == Only(list, ToSet(list) \ set)
First(list, n) == SubSeq(list, 1, Min({n, Len(list)}))

NoRefresh == [stage |-> "none", recommended |-> <<>>, deals |-> <<>>]
NoRanking == [recommended |-> <<>>, deals |-> <<>>, shops |-> <<>>, shelves |-> <<>>]

SuggestionsTypeOK ==
    /\ sold \subseteq Wares /\ opened \subseteq Shops /\ ordered \in Orders
    /\ refresh.stage \in {"none", "ranking", "done"}
    /\ DOMAIN ranking.shelves \subseteq Shops

SuggestionsInit ==
    /\ sold = {} /\ opened = {} /\ ordered = <<>>
    /\ refresh = NoRefresh /\ ranking = NoRanking
-----------------------------------------------------------------------------
(* The job.                                                                *)

\* Mutant of MergeUniqueIds: what was there already comes again.
MergeIds(primary, fallback, limit) == First(primary \o fallback, limit)

MergeUniqueIds(primary, fallback, limit) ==
    FoldLeft(LAMBDA merged, x :
                IF x \in ToSet(merged) \/ Len(merged) >= limit THEN merged ELSE Append(merged, x),
             <<>>, primary \o fallback)

\* What was ordered last, sold or not, and then what is popular
FallbackWares ==
    MergeUniqueIds(First(ordered, Sizes.refresh), First(Only(ByRank, sold), Sizes.refresh),
                   Sizes.refresh)

FallbackDeals == First(Only(ByRank, sold \cap Discounted), Sizes.refresh)

\* Stores of the same city, if there are any.
Area == IF opened \cap Local # {} THEN opened \cap Local ELSE opened

FallbackShops == First(Only(ByRating, Area), Sizes.refresh)

\* _taste_profile: an item counts for its category and for its brand, the more the later.
Taste(w) ==
    SumFunction([i \in {i \in DOMAIN ordered : Brand[ordered[i]] = Brand[w]} |->
                    2 * Max({121 - i, 1})])

Place(w, list) == CHOOSE i \in 1..Len(list) : list[i] = w

Score(w, recommended, deals) ==
    (IF w \in ToSet(recommended) THEN 2001 - Place(w, recommended) ELSE 0)
    + (IF w \in ToSet(deals) THEN 601 - Place(w, deals) ELSE 0)
    + (IF w \in ToSet(ordered) THEN 1200 ELSE 0)
    + Taste(w)
    + (IF w \in Featured THEN 80 ELSE 0)
    + (IF w \in Discounted THEN 50 ELSE 0)

\* _rank_store_products, of the most popular products of a store
Shelf(shop, recommended, deals) ==
    LET wares == ToSet(First(Only(ByRank, {w \in sold : ShopOf[w] = shop}), Sizes.pool))
        score == [w \in wares |-> Score(w, recommended, deals)]
        before(v, w) == \/ score[v] > score[w]
                        \/ score[v] = score[w] /\ Place(v, ByRank) <= Place(w, ByRank)
        rank == [w \in wares |-> Cardinality({v \in wares : before(v, w)})]
    IN  First(Inverse(rank, wares, 1..Cardinality(wares)), Sizes.shelf)

\* The stores that get a shelf: what the service names may crowd others out.
ShelvedShops(shops) ==
    ToSet(MergeUniqueIds(shops, Only(ByRating, Area), Max({Cardinality(Area), Len(shops), 1})))

Shelves(shops, recommended, deals) ==
    [s \in {s \in ShelvedShops(shops) \cap Shops : Shelf(s, recommended, deals) # <<>>} |->
        Shelf(s, recommended, deals)]

\* The products are ranked, ...
RefreshRanks(answer, deals) ==
    /\ refresh.stage = "none"
    /\ refresh' = [stage       |-> "ranking",
                   recommended |-> MergeUniqueIds(answer, FallbackWares, Sizes.refresh),
                   deals       |-> MergeUniqueIds(deals, FallbackDeals, Sizes.refresh)]
    /\ UNCHANGED <<sold, opened, ordered, ranking>>

\* ... then the stores and the products in each, and all is stored.
RefreshSaves(answer) ==
    /\ refresh.stage = "ranking"
    /\ LET shops == MergeUniqueIds(answer, FallbackShops, Sizes.refresh)
       IN  ranking' = [recommended |-> refresh.recommended,
                       deals       |-> refresh.deals,
                       shops       |-> shops,
                       shelves     |-> Shelves(shops, refresh.recommended, refresh.deals)]
    /\ refresh' = [NoRefresh EXCEPT !.stage = "done"]
    /\ UNCHANGED <<sold, opened, ordered>>
-----------------------------------------------------------------------------
(* What it ranks changes.                                                  *)

SetSold(w) ==
    /\ sold' = IF w \in sold THEN sold \ {w} ELSE sold \cup {w}
    /\ UNCHANGED <<opened, ordered, refresh, ranking>>

SetOpen(s) ==
    /\ opened' = IF s \in opened THEN opened \ {s} ELSE opened \cup {s}
    /\ UNCHANGED <<sold, ordered, refresh, ranking>>

Order(w) ==
    /\ w \in sold /\ ShopOf[w] \in opened /\ <<w>> \o ordered \in Orders
    /\ ordered' = <<w>> \o ordered
    /\ UNCHANGED <<sold, opened, refresh, ranking>>
-----------------------------------------------------------------------------
(* The pages.                                                              *)

\* _snapshot_ranked_products: what is ranked and may be shown, then the others.
RankedWares(ids, candidates, limit) ==
    IF ids = <<>> THEN First(candidates, limit)
    ELSE LET ranked == First(Only(ids, ToSet(candidates)), limit)
         IN  ranked \o First(Without(candidates, ToSet(ranked)), limit - Len(ranked))

\* _snapshot_ranked_stores
RankedShops(cards) ==
    LET ranked == Only(ranking.shops, ToSet(cards))
    IN  IF ranking.shops = <<>> THEN cards ELSE ranked \o Without(cards, ToSet(ranked))

\* _rank_vendor_cards_with_snapshot, of the list of stores
RankedCards == RankedShops(Only(ByRating, opened))

\* The products of the home page, of its stores if there are any
Candidates == Only(ByRank, {w \in sold : opened # {} => ShopOf[w] \in opened})

\* What is cut off is so after the ranking.
HomeShops == First(RankedShops(Only(ByDistance, opened)), Sizes.home)
HomeWares == RankedWares(ranking.recommended, Candidates, Sizes.recommended)
HomeDeals == RankedWares(ranking.deals, Only(Candidates, Marked), Sizes.deals)

\* _personalized_product_ids: a store without a shelf has both lists of all products.
PersonalIds(shop) ==
    IF shop \in DOMAIN ranking.shelves THEN ranking.shelves[shop]
    ELSE ranking.recommended \o ranking.deals

InShop(shop) == {w \in sold : ShopOf[w] = shop}

\* _selected_products: for the customer, ordered before, promoted, and popular.
Selected(shop) ==
    LET base     == Only(ByRank, InShop(shop))
        personal == Only(PersonalIds(shop), InShop(shop))
        before   == First(Without(Only(base, ToSet(ordered)), ToSet(personal)), Sizes.ordered)
        promoted == First(Without(Only(base, Featured), ToSet(personal \o before)), Sizes.featured)
        popular  == First(Without(base, ToSet(personal \o before \o promoted)), Sizes.popular)
    IN  First(personal \o before \o promoted \o popular, Sizes.selected)
-----------------------------------------------------------------------------
SuggestionsNext ==
    \/ \E a \in Answers, d \in Answers : RefreshRanks(a, d)
    \/ \E a \in ShopAnswers : RefreshSaves(a)
    \/ \E w \in Wares : SetSold(w) \/ Order(w)
    \/ \E s \in Shops : SetOpen(s)

SuggestionsSpec == SuggestionsInit /\ [][SuggestionsNext]_suggestionVars
-----------------------------------------------------------------------------
(* Properties.                                                             *)

\* As much of what may be shown as fits, and nothing twice
Fills(list, candidates, limit) ==
    /\ IsInjective(list) /\ ToSet(list) \subseteq candidates
    /\ Len(list) = Min({limit, Cardinality(candidates)})

\* However old a ranking is, and whatever the service answered, it decides only the order
\* of a page and, when more may be shown than there is room for, which stores and products
\* those are: nothing that is gone is shown, nothing twice, the list of stores leaves none
\* out, and what is gone from the ranking leaves no gap.  The suggestions in a store have
\* no gap that popular products could fill, and nothing twice, but for a store without a
\* shelf (in another city, empty or not open when it was ranked, or crowded out) that has
\* a product both recommended and a deal.
SuggestionsSound ==
    /\ Fills(HomeWares, ToSet(Candidates), Sizes.recommended)
    /\ Fills(HomeDeals, ToSet(Candidates) \cap Marked, Sizes.deals)
    /\ Fills(HomeShops, opened, Sizes.home)
    /\ Fills(RankedCards, opened, Cardinality(Shops))
    /\ \A s \in Shops :
          LET picks == Selected(s) IN
          /\ ToSet(picks) \subseteq InShop(s)
          /\ \/ /\ IsInjective(picks)
                /\ Len(picks) >= Min({Sizes.popular, Cardinality(InShop(s))})
             \/ /\ s \notin DOMAIN ranking.shelves
                /\ ToSet(ranking.recommended) \cap ToSet(ranking.deals) \cap InShop(s) # {}
=============================================================================
