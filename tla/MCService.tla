----------------------------- MODULE MCService -----------------------------
(***************************************************************************)
(* Small instances of Storefront, Aftercare and Notices, checked in one    *)
(* run: what customers and stores are shown, told and answered.  They      *)
(* share no state, and neither do the ledger, the cases and the ratings of *)
(* Aftercare: to check each by itself, a behaviour moves only one of these *)
(* five parts away from its initial state.                                 *)
(*                                                                         *)
(* Restrictions keep them small.  In Notices receipts are made of one      *)
(* order that is not scheduled, the release job runs over two that are, of *)
(* which one at most is moved on and one at most cancelled or rolled back, *)
(* and the back office deletes a notice while there is only one.  In       *)
(* Storefront at most two checks fail at a time; the cache is used at the  *)
(* place that everything reaches, for the list of products, while one      *)
(* check fails.                                                            *)
(***************************************************************************)
EXTENDS Aftercare, Notices, Storefront, TLC

CONSTANTS s1, s2, g1, g2, m1, m2

\* A store with a node of its own, and another that sells from a hub
TwoStores == {s1, s2}
TwoGoods == {g1, g2}
TwoNodes == {m1, m2}
StoreOfGoods == g1 :> s1 @@ g2 :> s2
OwnerOfNodes == m1 :> s1 @@ m2 :> NoStore

Reaching(stores, instant, covered, quoted, rollout) ==
    [reached |-> stores, instant |-> instant, covered |-> covered, quoted |-> quoted,
     rollout |-> rollout]
Centre == Reaching(TwoStores, {s1}, TwoNodes, TwoNodes, TwoNodes)
SomeSites == {Centre,
              Reaching({s2}, {s1}, {m1}, {m1}, {m1}),  \* its node delivers, the store does not
              Reaching({s1}, TwoStores, {m2}, {m2}, TwoNodes),
              Reaching(TwoStores, {}, {}, {}, {}),     \* no node is rolled out
              Reaching({s1}, {}, {}, {m1}, {m2})}

\* A time of the day, and of its second half minute
At(hour, minute) == hour * Hour + minute * 2
SecondsInto(hour, minute) == At(hour, minute) + 1

SomeHours == {<<At(9, 0), At(21, 0)>>, <<At(9, 15), At(20, 45)>>,
              <<At(22, 0), At(6, 0)>>,  \* past midnight
              <<At(9, 0), At(9, 0)>>, <<0, At(23, 59)>>}
SomeMoments == {0, SecondsInto(0, 0), SecondsInto(8, 59), At(9, 0), SecondsInto(9, 0), At(9, 20),
                At(9, 30), SecondsInto(9, 30), At(9, 31), At(20, 15), At(20, 44),
                SecondsInto(20, 45), SecondsInto(23, 59)}
SomePreps == {0, At(0, 10), At(0, 30), At(1, 15)}
SomeSpans == {<<0, 1>>, <<0, 7>>, <<-1, 2>>, <<3, 14>>}

Failing ==
    Cardinality(UNION {{<<v, c>> : c \in StoreChecks \ has[v]} : v \in Stores})
    + Cardinality(UNION {{<<g, c>> : c \in GoodChecks \ has[g]} : g \in Goods})
    + Cardinality({<<n, g>> \in NodeIds \X Goods : onHand[n][g] # "stocked"})
    + Cardinality(NodeIds \ on)

StorefrontSmall ==
    IF cacheVars = <<NotSaving, NoPage, NotReading, FALSE>> THEN Failing <= 2
    ELSE /\ Failing <= 1 /\ site = Centre
         /\ saving.row \in {NoStore, s1, g1} /\ onHand[m2] = [g \in Goods |-> "stocked"]
         /\ reader # NotReading => reader.key[1] = "list"

LedgerAtRest == \A r \in Refunds : ledger[r] = NoRefund
CasesAtRest == \A i \in Issues : issue[i] = NoIssue
RatingsAtRest == \A o \in Deliveries : rating[o] = "none"

Taken == {o \in Bookings : booking[o] # "none"}
ReceiptsAtRest == printing = {} /\ \A o \in Taken : job[o] = "queued" /\ receipts[o] = 0

NoticesSmall ==
    /\ \/ clock = 1 /\ Cardinality(Taken) <= 1 /\ \A o \in Taken : window[o] = 0
       \/ ReceiptsAtRest /\ \A o \in Taken : window[o] > 0
    /\ (\E o \in Bookings : Erased(o) > 0) => Cardinality(Taken) = 1
    /\ Cardinality({o \in Taken : booking[o] \in {"cancelled", "gone"}}) <= 1
    /\ Cardinality({o \in Taken : booking[o] \in {"confirmed", "preparing"}}) <= 1

StorefrontAtRest == site = Centre /\ StorefrontInit

\* The steps of Notices while everything else is at rest.
Alone(step) ==
    /\ StorefrontAtRest /\ AftercareInit /\ UNCHANGED <<aftercare, storefrontVars>>
    /\ step /\ NoticesSmall'

ServiceInit == AftercareInit /\ NoticesInit /\ StorefrontInit

ServiceNext ==
    \/ /\ NoticesInit /\ StorefrontAtRest /\ UNCHANGED <<noticeVars, storefrontVars>>
       /\ \/ CasesAtRest /\ RatingsAtRest /\ LedgerNext
          \/ LedgerAtRest /\ RatingsAtRest /\ CaseNext
          \/ LedgerAtRest /\ CasesAtRest /\ RatingNext
    \/ Alone(NoticesNext)
    \/ /\ AftercareInit /\ NoticesInit /\ UNCHANGED <<aftercare, noticeVars>>
       /\ StorefrontNext /\ StorefrontSmall'

ServiceSpec == /\ ServiceInit /\ [][ServiceNext]_<<aftercare, noticeVars, storefrontVars>>
               /\ \A w \in Workers : /\ WF_noticeVars(Alone(StartRun(w)))
                                     /\ WF_noticeVars(Alone(RunStep(w)))

\* The types of the three modules.
ServiceTypeOK == AftercareTypeOK /\ NoticesTypeOK /\ StorefrontTypeOK
=============================================================================
