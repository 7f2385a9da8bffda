--------------------------- MODULE DispatchProofs ---------------------------
(***************************************************************************)
(* Theorems about Dispatch for any sets of orders and couriers, any radius *)
(* and any queue faults.                                                   *)
(***************************************************************************)
EXTENDS Dispatch, TLAPS

-----------------------------------------------------------------------------
\* The values the handlers write lie in the ranges of their columns; with this
\* the ranges can stay unexpanded below.
LEMMA Ranges ==
    /\ Fresh \in Fresh..Stale
    /\ 1 \in 1..MaxRadius
    /\ NoPartner \in PartnerOrNone
    /\ Partners \subseteq PartnerOrNone
    /\ AssignmentStatuses = {"none", "accepted", "timed_out", "failed",
                             "cancelled", "searching", "notified"}
BY DispatchAssumption DEF Fresh, Stale, PartnerOrNone, AssignmentStatuses, Live

\* The changes handlers make to an assignment row.
LEMMA RowChanges ==
    ASSUME NEW a \in AssignmentRows, NEW s \in AssignmentStatuses,
           NEW p \in PartnerOrNone, NEW N \in SUBSET Partners,
           NEW R \in SUBSET Partners, NEW g \in Fresh..Stale
    PROVE  /\ [a EXCEPT !.status = s] \in AssignmentRows
           /\ [a EXCEPT !.age = g] \in AssignmentRows
           /\ [a EXCEPT !.status = s, !.accepted = p] \in AssignmentRows
           /\ [a EXCEPT !.status = s, !.notified = N] \in AssignmentRows
           /\ [a EXCEPT !.status = s, !.age = g, !.notified = N] \in AssignmentRows
           /\ [a EXCEPT !.status = s, !.accepted = p, !.notified = N, !.rejected = R]
                  \in AssignmentRows
           /\ [a EXCEPT !.status = s, !.accepted = p, !.age = g,
                        !.notified = N, !.rejected = R] \in AssignmentRows
BY DEF AssignmentRows

\* A row put in place of an order's assignment.
LEMMA RowType ==
    ASSUME TypeOK, NEW o \in Orders, NEW a \in AssignmentRows
    PROVE  /\ assignment[o] \in AssignmentRows
           /\ [assignment EXCEPT ![o] = a] \in [Orders -> AssignmentRows]
BY DEF TypeOK

-----------------------------------------------------------------------------
(* What the shared effects do to the types.                                *)

\* Rewriting last_search_at keeps the timers and hooks well typed.
LEMMA RewriteType ==
    ASSUME TypeOK, NEW o \in Orders, NEW s \in BOOLEAN,
           NEW H \in SUBSET {"current", "superseded"},
           SearchTimeRewritten(o, s, H)
    PROVE  /\ timeoutJob' \in [Orders -> BOOLEAN]
           /\ obsoleteTimeouts' \in [Orders -> 0..MaxObsolete]
           /\ startHook' \in [Orders -> SUBSET {"current", "superseded"}]
<1>1. timeoutJob' \in [Orders -> BOOLEAN]
  BY Zenon DEF TypeOK, SearchTimeRewritten
<1>2. obsoleteTimeouts' \in [Orders -> 0..MaxObsolete]
  <2>1. OneMore(obsoleteTimeouts[o], MaxObsolete) \in 0..MaxObsolete
    BY DispatchAssumption DEF TypeOK, OneMore
  <2> QED  BY <2>1 DEF TypeOK, SearchTimeRewritten
<1>3. startHook' \in [Orders -> SUBSET {"current", "superseded"}]
  <2>1. H \cup {"superseded" : h \in startHook[o]} \in SUBSET {"current", "superseded"}
    OBVIOUS
  <2> QED  BY <2>1 DEF TypeOK, SearchTimeRewritten
<1> QED  BY <1>1, <1>2, <1>3

\* Queueing a job keeps the queue within its cap.
LEMMA EnqueuedType ==
    ASSUME NEW jobs \in [Orders -> 0..MaxJobs], NEW o \in Orders
    PROVE  Enqueued(jobs, o) \in [Orders -> 0..MaxJobs]
BY DispatchAssumption DEF Enqueued, OneMore

LEMMA EnqueueType ==
    ASSUME NEW jobs \in [Orders -> 0..MaxJobs], NEW o \in Orders,
           EnqueueSearch(jobs, o)
    PROVE  searchJobs' \in [Orders -> 0..MaxJobs]
BY EnqueuedType DEF EnqueueSearch

LEMMA TakeJobType ==
    ASSUME TypeOK, NEW o \in Orders, searchJobs[o] > 0
    PROVE  TakeJob(o) \in [Orders -> 0..MaxJobs]
BY DispatchAssumption DEF TypeOK, TakeJob

LEMMA LiveSearchesType ==
    ASSUME TypeOK, EnqueueLiveSearches
    PROVE  searchJobs' \in [Orders -> 0..MaxJobs]
BY DispatchAssumption DEF TypeOK, EnqueueLiveSearches, OneMore

\* A courier whose status is recomputed is still a courier row.
LEMMA FreedType ==
    ASSUME TypeOK, NEW p, NEW o
    PROVE  Freed(p, o) \in [Partners -> PartnerRows]
BY DEF TypeOK, Freed, StatusWithout, PartnerRows, PartnerStatuses

LEMMA RestartedType ==
    ASSUME NEW a \in AssignmentRows
    PROVE  /\ Restarted(a) \in AssignmentRows
           /\ [Restarted(a) EXCEPT !.accepted = NoPartner] \in AssignmentRows
<1>1. Restarted(a) \in AssignmentRows
  BY Ranges DEF Restarted, AssignmentRows
<1> QED  BY <1>1, Ranges DEF AssignmentRows

\* _expand_and_retry keeps everything it writes well typed.
LEMMA ExpandType ==
    ASSUME TypeOK, NEW o \in Orders, NEW a \in AssignmentRows,
           NEW jobs \in [Orders -> 0..MaxJobs], ExpandAndRetry(o, a, jobs)
    PROVE  /\ assignment' \in [Orders -> AssignmentRows]
           /\ searchJobs' \in [Orders -> 0..MaxJobs]
           /\ timeoutJob' \in [Orders -> BOOLEAN]
           /\ obsoleteTimeouts' \in [Orders -> 0..MaxObsolete]
           /\ startHook' \in [Orders -> SUBSET {"current", "superseded"}]
<1>1. CASE a.radius = MaxRadius
  <2>1. [a EXCEPT !.status = "failed"] \in AssignmentRows
    BY Ranges DEF AssignmentRows
  <2> QED  BY <1>1, <2>1 DEF ExpandAndRetry, TypeOK
<1>2. CASE a.radius # MaxRadius
  <2>1. [a EXCEPT !.status = "searching", !.radius = @ + 1, !.age = Fresh]
            \in AssignmentRows
    <3>1. a.radius + 1 \in 1..MaxRadius
      BY <1>2, DispatchAssumption DEF AssignmentRows
    <3> QED  BY <3>1, Ranges DEF AssignmentRows
  <2>2. assignment' \in [Orders -> AssignmentRows]
    BY <1>2, <2>1 DEF ExpandAndRetry, TypeOK
  <2>3. SearchTimeRewritten(o, FALSE, {}) /\ EnqueueSearch(jobs, o)
    BY <1>2 DEF ExpandAndRetry
  <2> QED  BY <2>2, <2>3, RewriteType, EnqueueType
<1> QED  BY <1>1, <1>2

\* Closing a row, or freeing its courier, keeps the rows well typed.
LEMMA TimedOutType ==
    ASSUME TypeOK, NEW o \in Orders
    PROVE  TimedOut(o) \in [Orders -> AssignmentRows]
<1>1. [assignment[o] EXCEPT !.status = "timed_out"] \in AssignmentRows
  BY Ranges, RowChanges DEF TypeOK
<1> QED  BY <1>1, RowType DEF TimedOut

LEMMA OrderStatusType ==
    ASSUME TypeOK, NEW o \in Orders, NEW s \in OrderStatuses
    PROVE  [order EXCEPT ![o].status = s] \in [Orders -> OrderRows]
BY DEF TypeOK, OrderRows

LEMMA CancelType ==
    ASSUME TypeOK, NEW o \in Orders, CancelWithEffects(o)
    PROVE  TypeOK'
<1>1. order' \in [Orders -> OrderRows]
  BY OrderStatusType DEF CancelWithEffects, OrderStatuses
<1>2. assignment' \in [Orders -> AssignmentRows]
  <2>1. [assignment[o] EXCEPT !.status = "cancelled", !.accepted = NoPartner,
                              !.notified = {}, !.rejected = {}] \in AssignmentRows
    BY Ranges, RowChanges DEF TypeOK
  <2> QED  BY <2>1, RowType DEF TypeOK, CancelWithEffects
<1>3. partner' \in [Partners -> PartnerRows]
  BY FreedType DEF CancelWithEffects
<1> QED  BY <1>1, <1>2, <1>3 DEF TypeOK, CancelWithEffects, pending

LEMMA DeliverType ==
    ASSUME TypeOK, NEW o \in Orders, DeliverAndSettle(o)
    PROVE  TypeOK'
<1>1. order' \in [Orders -> OrderRows]
  BY OrderStatusType DEF DeliverAndSettle, OrderStatuses
<1>2. partner' \in [Partners -> PartnerRows]
  BY FreedType DEF DeliverAndSettle
<1> QED  BY <1>1, <1>2 DEF TypeOK, DeliverAndSettle, pending

LEMMA PartnerStatusType ==
    ASSUME TypeOK, NEW p \in Partners, NEW s \in PartnerStatuses,
           NEW ok \in BOOLEAN, NEW at \in BOOLEAN
    PROVE  /\ [partner EXCEPT ![p].status = s] \in [Partners -> PartnerRows]
           /\ [partner EXCEPT ![p].status = s, ![p].approved = ok]
                  \in [Partners -> PartnerRows]
           /\ [partner EXCEPT ![p].approved = ok, ![p].status = s]
                  \in [Partners -> PartnerRows]
           /\ [partner EXCEPT ![p].status = s, ![p].located = at]
                  \in [Partners -> PartnerRows]
BY DEF TypeOK, PartnerRows
-----------------------------------------------------------------------------
(* Type correctness.                                                       *)

LEMMA VendorType ==
    ASSUME TypeOK, NEW o \in Orders, VendorOrCustomer(o)
    PROVE  TypeOK'
<1>1. CASE VendorAdvances(o)
  BY <1>1, OrderStatusType DEF TypeOK, VendorAdvances, pending
<1>2. CASE CancelOrder(o)
  BY <1>2, CancelType DEF CancelOrder
<1>3. CASE VerifyPickupOtp(o)
  BY <1>3, OrderStatusType DEF TypeOK, VerifyPickupOtp, pending, OrderStatuses
<1>4. CASE StartDeliverySearch(o)
  <2>1. assignment' \in [Orders -> AssignmentRows]
    BY <1>4, RestartedType DEF TypeOK, StartDeliverySearch
  <2>2. SearchTimeRewritten(o, FALSE, {"current"})
    BY <1>4 DEF StartDeliverySearch
  <2> QED  BY <1>4, <2>1, <2>2, RewriteType DEF TypeOK, StartDeliverySearch
<1>5. CASE CancelDeliverySearch(o)
  <2>1. assignment' \in [Orders -> AssignmentRows]
    <3>1. [assignment[o] EXCEPT !.status = "cancelled", !.notified = {}] \in AssignmentRows
      BY Ranges, RowChanges DEF TypeOK
    <3> QED  BY <1>5, <3>1, RowType DEF CancelDeliverySearch
  <2> QED  BY <1>5, <2>1 DEF TypeOK, CancelDeliverySearch, pending
<1>6. ASSUME NEW h \in startHook[o], StartHookEnqueues(o, h)
      PROVE  TypeOK'
  BY <1>6, EnqueuedType DEF TypeOK, StartHookEnqueues
<1>7. ASSUME NEW h \in startHook[o], StartHookFails(o, h)
      PROVE  TypeOK'
  <2>1. assignment' \in [Orders -> AssignmentRows]
    <3>1. [assignment[o] EXCEPT !.status = "failed"] \in AssignmentRows
      BY Ranges, RowChanges DEF TypeOK
    <3> QED  BY <1>7, <3>1, RowType DEF TypeOK, StartHookFails
  <2> QED  BY <1>7, <2>1 DEF TypeOK, StartHookFails
<1> QED
  BY <1>1, <1>2, <1>3, <1>4, <1>5, <1>6, <1>7 DEF VendorOrCustomer

LEMMA RejectType ==
    ASSUME TypeOK, NEW o \in Orders, NEW r \in rejecting[o], RejectCommits(o, r)
    PROVE  TypeOK'
<1> DEFINE a == [assignment[o] EXCEPT !.rejected = @ \cup {r.partner}]
<1>1. r \in Rejections
  BY DEF TypeOK
<1>2. a \in AssignmentRows
  BY <1>1 DEF TypeOK, AssignmentRows, Rejections
<1>3. rejecting' \in [Orders -> SUBSET Rejections]
  BY DEF TypeOK, RejectCommits
<1>4. CASE r.expands /\ Searching(o) /\ Ready(o)
  <2>1. ExpandAndRetry(o, a, searchJobs)
    BY <1>4 DEF RejectCommits
  <2>2. searchJobs \in [Orders -> 0..MaxJobs]
    BY DEF TypeOK
  <2> HIDE DEF a
  <2>3. /\ assignment' \in [Orders -> AssignmentRows]
        /\ searchJobs' \in [Orders -> 0..MaxJobs]
        /\ timeoutJob' \in [Orders -> BOOLEAN]
        /\ obsoleteTimeouts' \in [Orders -> 0..MaxObsolete]
        /\ startHook' \in [Orders -> SUBSET {"current", "superseded"}]
    BY <1>2, <2>1, <2>2, ExpandType
  <2> QED  BY <1>3, <2>3 DEF TypeOK, RejectCommits
<1>5. CASE ~(r.expands /\ Searching(o) /\ Ready(o))
  <2>1. assignment' \in [Orders -> AssignmentRows]
    BY <1>2, <1>5 DEF TypeOK, RejectCommits
  <2> QED  BY <1>3, <1>5, <2>1 DEF TypeOK, RejectCommits
<1> QED  BY <1>4, <1>5

LEMMA CourierType ==
    ASSUME TypeOK, NEW p \in Partners, NEW o \in Orders, Courier(p, o)
    PROVE  TypeOK'
<1>1. CASE AcceptAssignment(p, o)
  <2>1. order' \in [Orders -> OrderRows]
    BY <1>1, Ranges DEF TypeOK, AcceptAssignment, OrderRows
  <2>2. assignment' \in [Orders -> AssignmentRows]
    <3>1. [assignment[o] EXCEPT !.status = "accepted", !.accepted = p] \in AssignmentRows
      BY Ranges, RowChanges DEF TypeOK
    <3> QED  BY <1>1, <3>1, RowType DEF AcceptAssignment
  <2>3. partner' \in [Partners -> PartnerRows]
    BY <1>1, PartnerStatusType DEF AcceptAssignment, PartnerStatuses
  <2> QED  BY <1>1, <2>1, <2>2, <2>3 DEF TypeOK, AcceptAssignment, pending
<1>2. CASE RejectBegins(p, o)
  <2>1. rejecting' \in [Orders -> SUBSET Rejections]
    <3> DEFINE e == Cardinality(assignment[o].rejected \cup {p})
                        >= Cardinality(assignment[o].notified)
    <3>1. [partner |-> p, expands |-> e] \in Rejections
      BY DEF Rejections
    <3> HIDE DEF e
    <3>2. rejecting' = [rejecting EXCEPT ![o] = @ \cup {[partner |-> p, expands |-> e]}]
      BY <1>2 DEF RejectBegins, e
    <3> QED  BY <3>1, <3>2 DEF TypeOK
  <2> QED  BY <1>2, <2>1 DEF TypeOK, RejectBegins
<1>3. CASE CancelAssignment(p, o)
  <2>1. order' \in [Orders -> OrderRows]
    BY <1>3, Ranges DEF TypeOK, CancelAssignment, OrderRows, OrderStatuses
  <2>2. partner' \in [Partners -> PartnerRows]
    BY <1>3, PartnerStatusType DEF CancelAssignment, PartnerStatuses
  <2>3. assignment' \in [Orders -> AssignmentRows]
    BY <1>3, RestartedType DEF TypeOK, CancelAssignment
  <2>4. SearchTimeRewritten(o, FALSE, {}) /\ EnqueueSearch(searchJobs, o)
    BY <1>3 DEF CancelAssignment
  <2>5. searchJobs' \in [Orders -> 0..MaxJobs]
    BY <2>4, EnqueueType DEF TypeOK
  <2> QED
    BY <1>3, <2>1, <2>2, <2>3, <2>4, <2>5, RewriteType DEF TypeOK, CancelAssignment
<1>4. CASE UpdateDeliveryStatus(p, o)
  BY <1>4, OrderStatusType DEF TypeOK, UpdateDeliveryStatus, pending, OrderStatuses
<1>5. CASE ConfirmDelivery(p, o)
  BY <1>5, DeliverType DEF ConfirmDelivery
<1> QED  BY <1>1, <1>2, <1>3, <1>4, <1>5 DEF Courier

LEMMA PartnerType ==
    ASSUME TypeOK, NEW p \in Partners, CourierAlone(p) \/ BackOfficePartner(p)
    PROVE  TypeOK'
<1>1. CASE GoOnline(p)
  <2>1. partner' \in [Partners -> PartnerRows]
    BY <1>1, PartnerStatusType DEF GoOnline, PartnerStatuses
  <2>2. searchJobs' \in [Orders -> 0..MaxJobs]
    BY <1>1, LiveSearchesType DEF TypeOK, GoOnline
  <2> QED  BY <1>1, <2>1, <2>2 DEF TypeOK, GoOnline
<1>2. CASE GoOffline(p)
  BY <1>2, PartnerStatusType DEF TypeOK, GoOffline, pending, PartnerStatuses
<1>3. CASE UpdateLocation(p)
  <2>1. (IF partner[p].status = "offline" THEN "available" ELSE partner[p].status)
            \in PartnerStatuses
    BY DEF TypeOK, PartnerRows, PartnerStatuses
  <2>2. partner' \in [Partners -> PartnerRows]
    BY <1>3, <2>1, PartnerStatusType DEF UpdateLocation
  <2>3. searchJobs' \in [Orders -> 0..MaxJobs]
    BY <1>3, LiveSearchesType DEF TypeOK, UpdateLocation
  <2> QED  BY <1>3, <2>2, <2>3 DEF TypeOK, UpdateLocation
<1>4. CASE ApprovePartner(p)
  BY <1>4, PartnerStatusType DEF TypeOK, ApprovePartner, pending, PartnerStatuses
<1>5. CASE RejectPartner(p)
  BY <1>5, PartnerStatusType DEF TypeOK, RejectPartner, pending, PartnerStatuses
<1>6. CASE EditPartner(p)
  <2>1. PICK s \in PartnerStatuses : \E ok \in BOOLEAN :
            partner' = [partner EXCEPT ![p].status = s, ![p].approved = ok]
    BY <1>6 DEF EditPartner
  <2>2. PICK ok \in BOOLEAN :
            partner' = [partner EXCEPT ![p].status = s, ![p].approved = ok]
    BY <2>1
  <2>3. partner' \in [Partners -> PartnerRows]
    BY <2>2, PartnerStatusType
  <2> QED  BY <1>6, <2>3 DEF TypeOK, EditPartner, pending
<1> QED
  BY <1>1, <1>2, <1>3, <1>4, <1>5, <1>6 DEF CourierAlone, BackOfficePartner

LEMMA BackOfficeType ==
    ASSUME TypeOK, NEW o \in Orders, BackOffice(o)
    PROVE  TypeOK'
<1>1. ASSUME NEW s \in OrderStatuses, AdminUpdateOrderStatus(o, s)
      PROVE  TypeOK'
  <2>1. CASE s = "cancelled"
    BY <1>1, <2>1, CancelType DEF AdminUpdateOrderStatus
  <2>2. CASE s = "delivered"
    BY <1>1, <2>2, DeliverType DEF AdminUpdateOrderStatus
  <2>3. CASE s \notin {"cancelled", "delivered"}
    <3>1. /\ order' = [order EXCEPT ![o].status = s]
          /\ UNCHANGED <<assignment, partner, pending>>
      BY <1>1, <2>3 DEF AdminUpdateOrderStatus
    <3> QED  BY <3>1, OrderStatusType DEF TypeOK, pending
  <2> QED  BY <2>1, <2>2, <2>3
<1>2. ASSUME NEW p \in Partners, ReassignTo(o, p)
      PROVE  TypeOK'
  <2>1. order' \in [Orders -> OrderRows]
    BY <1>2, Ranges DEF TypeOK, ReassignTo, OrderRows
  <2>2. assignment' \in [Orders -> AssignmentRows]
    <3> DEFINE a == assignment[o]
               N == a.notified \cup {p}
               R == a.rejected \ {p}
    <3>1. N \in SUBSET Partners /\ R \in SUBSET Partners
      BY DEF TypeOK, AssignmentRows
    <3>2. [a EXCEPT !.status = "accepted", !.accepted = p, !.age = Fresh,
                    !.notified = N, !.rejected = R] \in AssignmentRows
      <4>1. a \in AssignmentRows
        BY DEF TypeOK
      <4>2. p \in PartnerOrNone /\ "accepted" \in AssignmentStatuses
        BY <1>2, Ranges
      <4> HIDE DEF a, N, R
      <4> QED  BY <3>1, <4>1, <4>2, Ranges, RowChanges, Zenon
    <3> QED  BY <1>2, <3>2, RowType DEF ReassignTo
  <2>3. partner' \in [Partners -> PartnerRows]
    <3>1. \A q \in Partners : [partner[q] EXCEPT !.status = "on_delivery"] \in PartnerRows
      BY DEF TypeOK, PartnerRows, PartnerStatuses
    <3>2. \A q \in Partners : Freed(q, o)[q] \in PartnerRows
      BY FreedType
    <3> QED  BY <1>2, <3>1, <3>2 DEF TypeOK, ReassignTo
  <2>4. SearchTimeRewritten(o, FALSE, {})
    BY <1>2 DEF ReassignTo
  <2> QED  BY <1>2, <2>1, <2>2, <2>3, <2>4, RewriteType DEF TypeOK, ReassignTo
<1>3. CASE ReassignToNobody(o)
  <2>1. order' \in [Orders -> OrderRows]
    BY <1>3, Ranges DEF TypeOK, ReassignToNobody, OrderRows
  <2>2. partner' \in [Partners -> PartnerRows]
    BY <1>3, FreedType DEF ReassignToNobody
  <2>3. assignment' \in [Orders -> AssignmentRows]
    BY <1>3, RestartedType DEF TypeOK, ReassignToNobody
  <2>4. SearchTimeRewritten(o, FALSE, {}) /\ EnqueueSearch(searchJobs, o)
    BY <1>3 DEF ReassignToNobody
  <2>5. searchJobs' \in [Orders -> 0..MaxJobs]
    BY <2>4, EnqueueType DEF TypeOK
  <2> QED
    BY <1>3, <2>1, <2>2, <2>3, <2>4, <2>5, RewriteType DEF TypeOK, ReassignToNobody
<1> QED  BY <1>1, <1>2, <1>3 DEF BackOffice

LEMMA SearchType ==
    ASSUME TypeOK, NEW o \in Orders, RunSearch(o)
    PROVE  TypeOK'
<1>1. CASE SearchIgnored(o)
  BY <1>1, TakeJobType DEF TypeOK, SearchIgnored
<1>2. CASE SearchTooLate(o)
  BY <1>2, TakeJobType, TimedOutType DEF TypeOK, SearchTooLate
<1>3. ASSUME NEW near \in SUBSET Candidates(o), SearchNotifies(o, near)
      PROVE  TypeOK'
  <2>1. assignment' \in [Orders -> AssignmentRows]
    <3> DEFINE a == assignment[o]
               N == a.notified \cup near
    <3>1. a \in AssignmentRows
      BY DEF TypeOK
    <3>2. N \in SUBSET Partners
      BY <3>1, <1>3 DEF AssignmentRows, Candidates
    <3>3. assignment' = [assignment EXCEPT ![o] =
              [a EXCEPT !.status = "notified", !.age = Fresh, !.notified = N]]
      BY <1>3 DEF SearchNotifies
    <3> HIDE DEF a, N
    <3>4. [a EXCEPT !.status = "notified", !.age = Fresh, !.notified = N]
              \in AssignmentRows
      BY <3>1, <3>2, Ranges, RowChanges
    <3> QED  BY <3>3, <3>4, RowType
  <2>2. SearchTimeRewritten(o, TRUE, {})
    BY <1>3 DEF SearchNotifies
  <2>3. searchJobs' \in [Orders -> 0..MaxJobs]
    BY <1>3, TakeJobType DEF SearchNotifies
  <2> QED  BY <1>3, <2>1, <2>2, <2>3, RewriteType DEF TypeOK, SearchNotifies
<1>4. CASE SearchFindsNobody(o)
  <2>1. assignment[o] \in AssignmentRows
    BY DEF TypeOK
  <2>2. TakeJob(o) \in [Orders -> 0..MaxJobs]
    BY <1>4, TakeJobType DEF SearchFindsNobody
  <2>3. /\ assignment' \in [Orders -> AssignmentRows]
        /\ searchJobs' \in [Orders -> 0..MaxJobs]
        /\ timeoutJob' \in [Orders -> BOOLEAN]
        /\ obsoleteTimeouts' \in [Orders -> 0..MaxObsolete]
        /\ startHook' \in [Orders -> SUBSET {"current", "superseded"}]
    BY <1>4, <2>1, <2>2, ExpandType DEF SearchFindsNobody
  <2> QED  BY <1>4, <2>3 DEF TypeOK, SearchFindsNobody
<1> QED  BY <1>1, <1>2, <1>3, <1>4 DEF RunSearch

LEMMA JobsType ==
    ASSUME TypeOK, NEW o \in Orders, Jobs(o)
    PROVE  TypeOK'
<1>1. CASE RunSearch(o)
  BY <1>1, SearchType
<1>2. ASSUME NEW r \in rejecting[o], RejectCommits(o, r)
      PROVE  TypeOK'
  BY <1>2, RejectType
<1>3. CASE TimeoutFires(o)
  <2>1. timeoutJob' \in [Orders -> BOOLEAN]
    BY <1>3 DEF TypeOK, TimeoutFires
  <2> QED  BY <1>3, <2>1, TimedOutType DEF TypeOK, TimeoutFires
<1>4. CASE ObsoleteTimeoutFires(o)
  <2>1. obsoleteTimeouts' \in [Orders -> 0..MaxObsolete]
    BY <1>4, DispatchAssumption DEF TypeOK, ObsoleteTimeoutFires
  <2> QED  BY <1>4, <2>1, TimedOutType DEF TypeOK, ObsoleteTimeoutFires
<1>5. CASE PollExpires(o)
  BY <1>5, TimedOutType DEF TypeOK, PollExpires, pending
<1>6. CASE PollRestarts(o)
  <2>1. [assignment[o] EXCEPT !.age = Fresh] \in AssignmentRows
    BY Ranges, RowChanges DEF TypeOK
  <2>2. assignment' \in [Orders -> AssignmentRows]
    BY <1>6, <2>1, RowType DEF PollRestarts
  <2>3. SearchTimeRewritten(o, FALSE, {}) /\ EnqueueSearch(searchJobs, o)
    BY <1>6 DEF PollRestarts
  <2>4. searchJobs' \in [Orders -> 0..MaxJobs]
    BY <2>3, EnqueueType DEF TypeOK
  <2> QED  BY <1>6, <2>2, <2>3, <2>4, RewriteType DEF TypeOK, PollRestarts
<1>7. CASE WorkerDies(o)
  <2>1. searchJobs' \in [Orders -> 0..MaxJobs]
    BY <1>7, TakeJobType DEF TypeOK, WorkerDies
  <2>2. timeoutJob' \in [Orders -> BOOLEAN]
    BY <1>7 DEF TypeOK, WorkerDies
  <2> QED  BY <1>7, <2>1, <2>2 DEF TypeOK, WorkerDies
<1>8. CASE Ages(o)
  <2> DEFINE g == assignment[o].age + 1
  <2>1. assignment[o] \in AssignmentRows
    BY DEF TypeOK
  <2>2. g \in Fresh..Stale
    BY <1>8, <2>1 DEF Ages, AssignmentRows, Fresh, Stale
  <2>3. assignment' = [assignment EXCEPT ![o] = [assignment[o] EXCEPT !.age = g]]
    BY <1>8 DEF Ages
  <2> HIDE DEF g
  <2>4. [assignment[o] EXCEPT !.age = g] \in AssignmentRows
    BY <2>1, <2>2, Ranges, RowChanges
  <2>5. assignment' \in [Orders -> AssignmentRows]
    BY <2>3, <2>4, RowType
  <2> QED  BY <1>8, <2>5 DEF TypeOK, Ages, pending
<1> QED  BY <1>1, <1>2, <1>3, <1>4, <1>5, <1>6, <1>7, <1>8 DEF Jobs

LEMMA InitType == Init => TypeOK
BY DispatchAssumption, Ranges
DEF Init, TypeOK, OrderRows, OrderStatuses, AssignmentRows, NoAssignment,
    PartnerRows, PartnerStatuses, NewPartner

LEMMA StepType == TypeOK /\ [Next]_vars => TypeOK'
<1> SUFFICES ASSUME TypeOK, [Next]_vars PROVE TypeOK'
  OBVIOUS
<1>1. CASE Next
  BY <1>1, VendorType, CourierType, BackOfficeType, JobsType, PartnerType DEF Next
<1>2. CASE UNCHANGED vars
  BY <1>2 DEF TypeOK, vars
<1> QED  BY <1>1, <1>2

\* Whatever the numbers of orders and couriers, the radius and the queue's
\* faults, every handler and job of delivery/ and vendors/actions/orders.py
\* leaves well-formed rows, jobs and timers.
THEOREM TypeCorrect == Spec => []TypeOK
BY InitType, StepType, PTL DEF Spec
-----------------------------------------------------------------------------
(* What a step does to the order rows: of the many handlers, each either   *)
(* leaves them alone or takes one of three steps.                          *)

OrderProgresses(o, s) == /\ Forward(order[o].status, s)
                         /\ order' = [order EXCEPT ![o].status = s]

OrderAssigned(o, p) == /\ Ready(o)
                       /\ ActiveOrders(p) \subseteq {o}
                       /\ order' = [order EXCEPT ![o].courier = p]

OrderReleased(o) == /\ order[o].status \in {"ready", "picked_up"}
                    /\ order' = [order EXCEPT ![o] =
                                    [status |-> "ready", courier |-> NoPartner]]

OrderStep == \/ UNCHANGED order
             \/ \E o \in Orders :
                   \/ \E s \in OrderStatuses : OrderProgresses(o, s)
                   \/ \E p \in Partners : OrderAssigned(o, p)
                   \/ OrderReleased(o)

\* The moves of the vendor and courier are moves the back office could make.
LEMMA ForwardMoves ==
    /\ \A s, t \in OrderStatuses : <<s, t>> \in VendorMoves => Forward(s, t)
    /\ \A s \in CancellableStatuses : Forward(s, "cancelled")
    /\ Forward("ready", "picked_up")
    /\ Forward("picked_up", "on_the_way")
    /\ Forward("on_the_way", "delivered")
BY DEF Forward, Rank, VendorMoves, OrderStatuses, CancellableStatuses, TerminalStatuses

LEMMA OrderSteps ==
    ASSUME TypeOK, [Next]_vars
    PROVE  OrderStep
<1>1. ASSUME NEW o \in Orders, VendorOrCustomer(o)
      PROVE  OrderStep
  <2>1. CASE VendorAdvances(o)
    <3>1. PICK s \in OrderStatuses :
              /\ <<order[o].status, s>> \in VendorMoves
              /\ order' = [order EXCEPT ![o].status = s]
      BY <2>1 DEF VendorAdvances
    <3>2. order[o].status \in OrderStatuses
      BY DEF TypeOK, OrderRows
    <3> QED  BY <3>1, <3>2, ForwardMoves DEF OrderStep, OrderProgresses
  <2>2. CASE CancelOrder(o)
    <3>1. OrderProgresses(o, "cancelled")
      BY <2>2, ForwardMoves DEF CancelOrder, CancelWithEffects, OrderProgresses
    <3> QED  BY <3>1 DEF OrderStep, OrderStatuses
  <2>3. CASE VerifyPickupOtp(o)
    <3>1. OrderProgresses(o, "picked_up")
      BY <2>3, ForwardMoves DEF VerifyPickupOtp, Ready, OrderProgresses
    <3> QED  BY <3>1 DEF OrderStep, OrderStatuses
  <2>4. CASE UNCHANGED order
    BY <2>4 DEF OrderStep
  <2> QED
    BY <1>1, <2>1, <2>2, <2>3, <2>4
    DEF VendorOrCustomer, StartDeliverySearch, CancelDeliverySearch,
        StartHookEnqueues, StartHookFails
<1>2. ASSUME NEW o \in Orders, NEW p \in Partners, Courier(p, o)
      PROVE  OrderStep
  <2>1. CASE AcceptAssignment(p, o)
    <3>1. OrderAssigned(o, p)
      BY <2>1 DEF AcceptAssignment, OrderAssigned
    <3> QED  BY <3>1 DEF OrderStep
  <2>2. CASE RejectBegins(p, o)
    BY <2>2 DEF RejectBegins, OrderStep
  <2>3. CASE CancelAssignment(p, o)
    <3>1. OrderReleased(o)
      BY <2>3 DEF CancelAssignment, OrderReleased
    <3> QED  BY <3>1 DEF OrderStep
  <2>4. CASE UpdateDeliveryStatus(p, o)
    <3>1. OrderProgresses(o, "on_the_way")
      BY <2>4, ForwardMoves DEF UpdateDeliveryStatus, OrderProgresses
    <3> QED  BY <3>1 DEF OrderStep, OrderStatuses
  <2>5. CASE ConfirmDelivery(p, o)
    <3>1. OrderProgresses(o, "delivered")
      BY <2>5, ForwardMoves DEF ConfirmDelivery, DeliverAndSettle, OrderProgresses
    <3> QED  BY <3>1 DEF OrderStep, OrderStatuses
  <2> QED  BY <1>2, <2>1, <2>2, <2>3, <2>4, <2>5 DEF Courier
<1>3. ASSUME NEW o \in Orders, BackOffice(o)
      PROVE  OrderStep
  <2>1. ASSUME NEW s \in OrderStatuses, AdminUpdateOrderStatus(o, s)
        PROVE  OrderProgresses(o, s)
    BY <2>1 DEF AdminUpdateOrderStatus, CancelWithEffects, DeliverAndSettle,
                OrderProgresses
  <2>2. ASSUME NEW p \in Partners, ReassignTo(o, p)
        PROVE  OrderAssigned(o, p)
    BY <2>2 DEF ReassignTo, OrderAssigned
  <2>3. CASE ReassignToNobody(o)
    <3>1. /\ order[o].status = "ready"
          /\ order' = [order EXCEPT ![o] = [order[o] EXCEPT !.courier = NoPartner]]
      BY <2>3 DEF ReassignToNobody, Ready
    <3>2. [order[o] EXCEPT !.courier = NoPartner]
              = [status |-> "ready", courier |-> NoPartner]
      BY <3>1 DEF TypeOK, OrderRows
    <3>3. OrderReleased(o)
      BY <3>1, <3>2 DEF OrderReleased
    <3> QED  BY <3>3 DEF OrderStep
  <2> QED  BY <1>3, <2>1, <2>2, <2>3 DEF BackOffice, OrderStep
<1>4. ASSUME NEW o \in Orders, Jobs(o)
      PROVE  UNCHANGED order
  BY <1>4 DEF Jobs, RunSearch, SearchIgnored, SearchTooLate, SearchNotifies,
     SearchFindsNobody, RejectCommits, TimeoutFires, ObsoleteTimeoutFires,
     PollExpires, PollRestarts, WorkerDies, Ages
<1>5. ASSUME NEW p \in Partners, CourierAlone(p) \/ BackOfficePartner(p)
      PROVE  UNCHANGED order
  BY <1>5 DEF CourierAlone, BackOfficePartner, GoOnline, GoOffline, UpdateLocation,
     ApprovePartner, RejectPartner, EditPartner
<1>6. CASE UNCHANGED vars
  BY <1>6 DEF vars, OrderStep
<1> QED  BY <1>1, <1>2, <1>3, <1>4, <1>5, <1>6 DEF Next, OrderStep
-----------------------------------------------------------------------------
(* One order per courier.                                                  *)

\* Only an order that is ready or beyond has a courier; without this an order
\* could bring a courier along when it becomes ready.
CourierOnlyAfterReady ==
    \A o \in Orders : order[o].courier # NoPartner =>
        order[o].status \in ActiveStatuses \cup TerminalStatuses

LEMMA CourierStep ==
    ASSUME TypeOK, CourierOnlyAfterReady, OneOrderPerCourier, OrderStep
    PROVE  CourierOnlyAfterReady' /\ OneOrderPerCourier'
<1> USE DEF CourierOnlyAfterReady, OneOrderPerCourier, ActiveOrders,
            ActiveStatuses, TerminalStatuses
<1>1. CASE UNCHANGED order
  BY <1>1
<1>2. ASSUME NEW o \in Orders, NEW s \in OrderStatuses, OrderProgresses(o, s)
      PROVE  CourierOnlyAfterReady' /\ OneOrderPerCourier'
  <2>1. /\ order[o].status \notin {"delivered", "cancelled"}
        /\ order' = [order EXCEPT ![o].status = s]
    BY <1>2 DEF OrderProgresses, Forward
  <2>2. order[o].courier # NoPartner =>
            s \in {"picked_up", "on_the_way", "delivered", "cancelled"}
    BY <1>2 DEF OrderProgresses, Forward, Rank, OrderStatuses
  <2>3. \A x \in Orders : /\ order'[x].courier = order[x].courier
                          /\ x # o => order'[x].status = order[x].status
                          /\ order'[o].status = s
    BY <2>1 DEF TypeOK, OrderRows
  <2>4. \A x \in Orders : order[x].courier # NoPartner /\ order'[x].status \in ActiveStatuses
            => order[x].status \in ActiveStatuses
    BY <2>1, <2>2, <2>3
  <2>5. CourierOnlyAfterReady'
    BY <2>2, <2>3
  <2>6. \A p \in Partners : ActiveOrders(p)' \subseteq ActiveOrders(p)
    BY <2>3, <2>4, DispatchAssumption
  <2>7. OneOrderPerCourier'
    BY <2>6
  <2> QED  BY <2>5, <2>7
<1>3. ASSUME NEW o \in Orders, NEW p \in Partners, OrderAssigned(o, p)
      PROVE  CourierOnlyAfterReady' /\ OneOrderPerCourier'
  <2>1. \A x \in Orders : /\ order'[x].status = order[x].status
                          /\ x # o => order'[x].courier = order[x].courier
                          /\ order'[o].courier = p
    BY <1>3 DEF OrderAssigned, TypeOK, OrderRows
  <2>2. order[o].status = "ready"
    BY <1>3 DEF OrderAssigned, Ready
  <2>3. CourierOnlyAfterReady'
    BY <2>1, <2>2
  <2>4. \A q \in Partners \ {p} : ActiveOrders(q)' \subseteq ActiveOrders(q)
    BY <2>1
  <2>5. ActiveOrders(p)' \subseteq {o}
    BY <1>3, <2>1 DEF OrderAssigned
  <2>6. OneOrderPerCourier'
    BY <2>4, <2>5
  <2> QED  BY <2>3, <2>6
<1>4. ASSUME NEW o \in Orders, OrderReleased(o)
      PROVE  CourierOnlyAfterReady' /\ OneOrderPerCourier'
  <2>1. \A x \in Orders : /\ x # o => order'[x] = order[x]
                          /\ order'[o].courier = NoPartner
    BY <1>4 DEF OrderReleased, TypeOK
  <2>2. CourierOnlyAfterReady'
    BY <2>1
  <2>3. \A p \in Partners : ActiveOrders(p)' \subseteq ActiveOrders(p)
    BY <2>1, DispatchAssumption
  <2> QED  BY <2>2, <2>3
<1> QED  BY <1>1, <1>2, <1>3, <1>4 DEF OrderStep

\* A courier never has two active orders, although GoOnline, ApprovePartner
\* and EditPartner may call a busy courier "available" and acceptances,
\* reassignments and the couriers' own cancellations arrive in any order.
THEOREM CourierExclusive == Spec => []OneOrderPerCourier
<1> DEFINE Inv == TypeOK /\ CourierOnlyAfterReady /\ OneOrderPerCourier
<1>1. Init => Inv
  BY InitType DEF Init, CourierOnlyAfterReady, OneOrderPerCourier, ActiveOrders,
     ActiveStatuses
<1>2. Inv /\ [Next]_vars => Inv'
  BY StepType, OrderSteps, CourierStep
<1> QED  BY <1>1, <1>2, PTL DEF Spec
-----------------------------------------------------------------------------
(* Refinement.                                                             *)

LEMMA ContractStep ==
    ASSUME TypeOK, OrderStep
    PROVE  [Contract!Next]_(Contract!vars)
<1> DEFINE status == [o \in Orders |-> order[o].status]
           courier == [o \in Orders |-> order[o].courier]
<1>1. CASE UNCHANGED order
  BY <1>1 DEF Contract!vars
<1>2. ASSUME NEW o \in Orders, NEW s \in OrderStatuses, OrderProgresses(o, s)
      PROVE  Contract!Next
  <2>1. order' = [order EXCEPT ![o].status = s]
    BY <1>2 DEF OrderProgresses
  <2>2. status' = [status EXCEPT ![o] = s] /\ courier' = courier
    BY <2>1 DEF TypeOK, OrderRows
  <2>3. Contract!Progress(o, s)
    BY <1>2, <2>2 DEF OrderProgresses, Contract!Progress, Contract!Forward,
       Forward, Contract!TerminalStatuses, TerminalStatuses, Contract!Rank, Rank
  <2> QED  BY <2>3 DEF Contract!Next, Contract!OrderStatuses, OrderStatuses
<1>3. ASSUME NEW o \in Orders, NEW p \in Partners, OrderAssigned(o, p)
      PROVE  Contract!Next
  <2>1. order' = [order EXCEPT ![o].courier = p]
    BY <1>3 DEF OrderAssigned
  <2>2. courier' = [courier EXCEPT ![o] = p] /\ status' = status
    BY <2>1 DEF TypeOK, OrderRows
  <2>3. Contract!Assign(o, p)
    BY <1>3, <2>2 DEF OrderAssigned, Ready, ActiveOrders, ActiveStatuses,
       Contract!Assign, Contract!Carries, Contract!ActiveStatuses
  <2> QED  BY <2>3 DEF Contract!Next
<1>4. ASSUME NEW o \in Orders, OrderReleased(o)
      PROVE  Contract!Next
  <2>1. order' = [order EXCEPT ![o] = [status |-> "ready", courier |-> NoPartner]]
    BY <1>4 DEF OrderReleased
  <2>2. /\ status' = [status EXCEPT ![o] = "ready"]
        /\ courier' = [courier EXCEPT ![o] = NoPartner]
    BY <2>1 DEF TypeOK
  <2>3. Contract!Release(o)
    BY <1>4, <2>2 DEF OrderReleased, Contract!Release
  <2> QED  BY <2>3 DEF Contract!Next
<1> QED  BY <1>1, <1>2, <1>3, <1>4 DEF OrderStep

LEMMA ContractInit == Init => Contract!Init
BY DEF Init, Contract!Init

\* Dispatch keeps the delivery contract: seen through order status and courier
\* alone, every handler and job is progress, an assignment to a courier who is
\* free, a release, or nothing at all.
THEOREM ContractImplemented == Spec => ImplementsContract
BY InitType, StepType, OrderSteps, ContractStep, ContractInit, PTL
DEF Spec, ImplementsContract, Contract!Spec
-----------------------------------------------------------------------------
(* The order and its assignment agree.                                     *)

\* AssignmentMatchesOrder for one order.
Matches(o) ==
    IF order[o].courier # NoPartner /\ order[o].status # "cancelled"
    THEN assignment[o].status = "accepted" /\ assignment[o].accepted = order[o].courier
    ELSE assignment[o].status # "accepted" /\ assignment[o].accepted = NoPartner

\* Nothing but the rows of order o changes.
OthersKept(o) == \A x \in Orders \ {o} : /\ order'[x] = order[x]
                                         /\ assignment'[x] = assignment[x]

LEMMA MatchesFrame ==
    ASSUME AssignmentMatchesOrder, NEW o \in Orders, OthersKept(o), Matches(o)'
    PROVE  AssignmentMatchesOrder'
BY DEF AssignmentMatchesOrder, OthersKept, Matches

LEMMA MatchesEach ==
    AssignmentMatchesOrder <=> \A o \in Orders : Matches(o)
BY DEF AssignmentMatchesOrder, Matches

\* A step that replaces the assignment row of o and leaves the order alone
\* preserves the agreement if it neither accepts nor un-accepts.
LEMMA RowKeepsMatch ==
    ASSUME TypeOK, AssignmentMatchesOrder, NEW o \in Orders, NEW b,
           UNCHANGED order, assignment' = [assignment EXCEPT ![o] = b],
           b.accepted = assignment[o].accepted,
           b.status = "accepted" <=> assignment[o].status = "accepted"
    PROVE  AssignmentMatchesOrder'
<1>1. Matches(o)
  BY MatchesEach
<1>2. OthersKept(o)
  BY DEF TypeOK, OthersKept
<1>3. Matches(o)'
  BY <1>1 DEF TypeOK, Matches
<1> QED  BY <1>2, <1>3, MatchesFrame

LEMMA ExpandKeepsMatch ==
    ASSUME TypeOK, AssignmentMatchesOrder, NEW o \in Orders, NEW a \in AssignmentRows,
           NEW jobs, Searching(o), UNCHANGED order, ExpandAndRetry(o, a, jobs),
           a.accepted = assignment[o].accepted
    PROVE  AssignmentMatchesOrder'
<1> DEFINE failed == [a EXCEPT !.status = "failed"]
           wider == [a EXCEPT !.status = "searching", !.radius = @ + 1, !.age = Fresh]
<1>1. assignment[o].status # "accepted"
  BY DEF Searching, Live
<1>2. /\ failed.status = "failed" /\ failed.accepted = a.accepted
      /\ wider.status = "searching" /\ wider.accepted = a.accepted
  BY DEF AssignmentRows
<1>3. \/ assignment' = [assignment EXCEPT ![o] = failed]
      \/ assignment' = [assignment EXCEPT ![o] = wider]
  BY DEF ExpandAndRetry
<1> HIDE DEF failed, wider
<1>4. CASE assignment' = [assignment EXCEPT ![o] = failed]
  BY <1>1, <1>2, <1>4, RowKeepsMatch
<1>5. CASE assignment' = [assignment EXCEPT ![o] = wider]
  BY <1>1, <1>2, <1>5, RowKeepsMatch
<1> QED  BY <1>3, <1>4, <1>5

LEMMA TimedOutKeepsMatch ==
    ASSUME TypeOK, AssignmentMatchesOrder, NEW o \in Orders, Searching(o),
           UNCHANGED order, assignment' = TimedOut(o)
    PROVE  AssignmentMatchesOrder'
<1> DEFINE b == [assignment[o] EXCEPT !.status = "timed_out"]
<1>1. /\ assignment' = [assignment EXCEPT ![o] = b]
      /\ b.status = "timed_out" /\ b.accepted = assignment[o].accepted
  BY DEF TimedOut, TypeOK, AssignmentRows
<1>2. assignment[o].status # "accepted"
  BY DEF Searching, Live
<1> HIDE DEF b
<1> QED  BY <1>1, <1>2, RowKeepsMatch

\* Cancelling closes both rows.
LEMMA CancelKeepsMatch ==
    ASSUME TypeOK, AssignmentMatchesOrder, NEW o \in Orders, CancelWithEffects(o)
    PROVE  AssignmentMatchesOrder'
<1>1. Matches(o)
  BY MatchesEach
<1>2. OthersKept(o)
  BY DEF TypeOK, CancelWithEffects, OthersKept
<1>3. order'[o].status = "cancelled"
  BY DEF TypeOK, CancelWithEffects, OrderRows
<1>4. assignment'[o].status # "accepted" /\ assignment'[o].accepted = NoPartner
  BY <1>1 DEF TypeOK, CancelWithEffects, AssignmentRows, Matches
<1> QED  BY <1>2, <1>3, <1>4, MatchesFrame DEF Matches

\* Moving an order that is not cancelled on, with no other change, does not
\* disturb the agreement.
LEMMA ProgressKeepsMatch ==
    ASSUME TypeOK, AssignmentMatchesOrder, NEW o \in Orders, NEW s \in OrderStatuses,
           s # "cancelled", order[o].status # "cancelled",
           order' = [order EXCEPT ![o].status = s], UNCHANGED assignment
    PROVE  AssignmentMatchesOrder'
<1>1. Matches(o)
  BY MatchesEach
<1>2. OthersKept(o)
  BY DEF TypeOK, OthersKept
<1>3. order'[o].status = s /\ order'[o].courier = order[o].courier
  BY DEF TypeOK, OrderRows
<1> QED  BY <1>1, <1>2, <1>3, MatchesFrame DEF Matches

\* Restarting the search of an order that loses its courier.
LEMMA RestartKeepsMatch ==
    ASSUME TypeOK, AssignmentMatchesOrder, NEW o \in Orders,
           order' = [order EXCEPT ![o] = [status |-> "ready", courier |-> NoPartner]],
           assignment' = [assignment EXCEPT ![o] =
                             [Restarted(@) EXCEPT !.accepted = NoPartner]]
    PROVE  AssignmentMatchesOrder'
<1>1. OthersKept(o)
  BY DEF TypeOK, OthersKept
<1>2. order'[o].courier = NoPartner
  BY DEF TypeOK
<1>3. assignment'[o].status = "searching" /\ assignment'[o].accepted = NoPartner
  BY DEF TypeOK, Restarted, AssignmentRows
<1> QED  BY <1>1, <1>2, <1>3, MatchesFrame DEF Matches

\* An order that gets courier p and whose assignment is accepted by p.
LEMMA AssignKeepsMatch ==
    ASSUME TypeOK, AssignmentMatchesOrder, NEW o \in Orders, NEW p \in Partners, NEW b,
           Ready(o), order' = [order EXCEPT ![o].courier = p],
           assignment' = [assignment EXCEPT ![o] = b],
           b.status = "accepted", b.accepted = p
    PROVE  AssignmentMatchesOrder'
<1>1. OthersKept(o)
  BY DEF TypeOK, OthersKept
<1>2. order'[o].courier = p /\ order'[o].status = "ready"
  BY DEF TypeOK, OrderRows, Ready
<1>3. assignment'[o] = b
  BY DEF TypeOK
<1> QED  BY <1>1, <1>2, <1>3, MatchesFrame, DispatchAssumption DEF Matches

LEMMA MatchStep ==
    ASSUME TypeOK, AssignmentMatchesOrder, [Next]_vars
    PROVE  AssignmentMatchesOrder'
<1>1. ASSUME NEW o \in Orders, VendorOrCustomer(o)
      PROVE  AssignmentMatchesOrder'
  <2>0. assignment[o] \in AssignmentRows
    BY DEF TypeOK
  <2>1. CASE VendorAdvances(o)
    <3>1. PICK s \in OrderStatuses :
              /\ <<order[o].status, s>> \in VendorMoves
              /\ order' = [order EXCEPT ![o].status = s]
              /\ UNCHANGED assignment
      BY <2>1 DEF VendorAdvances
    <3>2. s # "cancelled" /\ order[o].status # "cancelled"
      BY <3>1 DEF VendorMoves
    <3> QED  BY <3>1, <3>2, ProgressKeepsMatch
  <2>2. CASE CancelOrder(o)
    BY <2>2, CancelKeepsMatch DEF CancelOrder
  <2>3. CASE VerifyPickupOtp(o)
    BY <2>3, ProgressKeepsMatch DEF VerifyPickupOtp, Ready, OrderStatuses
  <2>4. CASE StartDeliverySearch(o)
    <3>1. /\ Restarted(assignment[o]).status = "searching"
          /\ Restarted(assignment[o]).accepted = assignment[o].accepted
      BY <2>0 DEF Restarted, AssignmentRows
    <3> QED  BY <2>4, <3>1, RowKeepsMatch DEF StartDeliverySearch, Live
  <2>5. CASE CancelDeliverySearch(o)
    <3> DEFINE b == [assignment[o] EXCEPT !.status = "cancelled", !.notified = {}]
    <3>1. b.status = "cancelled" /\ b.accepted = assignment[o].accepted
      BY <2>0 DEF AssignmentRows
    <3>2. assignment' = [assignment EXCEPT ![o] = b] /\ UNCHANGED order
      BY <2>5 DEF CancelDeliverySearch
    <3>3. assignment[o].status # "accepted"
      BY <2>5 DEF CancelDeliverySearch, Searching, Live
    <3> HIDE DEF b
    <3> QED  BY <3>1, <3>2, <3>3, RowKeepsMatch
  <2>6. ASSUME NEW h \in startHook[o], StartHookEnqueues(o, h)
        PROVE  AssignmentMatchesOrder'
    BY <2>6 DEF StartHookEnqueues, AssignmentMatchesOrder
  <2>7. ASSUME NEW h \in startHook[o], StartHookFails(o, h)
        PROVE  AssignmentMatchesOrder'
    <3> DEFINE b == [assignment[o] EXCEPT !.status = "failed"]
    <3>1. b.status = "failed" /\ b.accepted = assignment[o].accepted
      BY <2>0 DEF AssignmentRows
    <3>2. UNCHANGED order
      BY <2>7 DEF StartHookFails
    <3>3. CASE assignment[o].status = "searching" /\ h = "current"
      <4>1. assignment' = [assignment EXCEPT ![o] = b]
        BY <2>7, <3>3 DEF StartHookFails
      <4> HIDE DEF b
      <4> QED  BY <3>1, <3>2, <3>3, <4>1, RowKeepsMatch
    <3>4. CASE ~(assignment[o].status = "searching" /\ h = "current")
      BY <2>7, <3>2, <3>4 DEF StartHookFails, AssignmentMatchesOrder
    <3> QED  BY <3>3, <3>4
  <2> QED
    BY <1>1, <2>1, <2>2, <2>3, <2>4, <2>5, <2>6, <2>7 DEF VendorOrCustomer
<1>2. ASSUME NEW o \in Orders, NEW p \in Partners, Courier(p, o)
      PROVE  AssignmentMatchesOrder'
  <2>0. assignment[o] \in AssignmentRows
    BY DEF TypeOK
  <2>1. CASE AcceptAssignment(p, o)
    <3> DEFINE b == [assignment[o] EXCEPT !.status = "accepted", !.accepted = p]
    <3>1. b.status = "accepted" /\ b.accepted = p
      BY <2>0 DEF AssignmentRows
    <3>2. /\ Ready(o) /\ order' = [order EXCEPT ![o].courier = p]
          /\ assignment' = [assignment EXCEPT ![o] = b]
      BY <2>1 DEF AcceptAssignment
    <3> HIDE DEF b
    <3> QED  BY <3>1, <3>2, AssignKeepsMatch
  <2>2. CASE RejectBegins(p, o)
    BY <2>2 DEF RejectBegins, AssignmentMatchesOrder
  <2>3. CASE CancelAssignment(p, o)
    BY <2>3, RestartKeepsMatch DEF CancelAssignment
  <2>4. CASE UpdateDeliveryStatus(p, o)
    <3>1. order[o].status = "picked_up"
      BY <2>4 DEF UpdateDeliveryStatus
    <3> QED  BY <2>4, <3>1, ProgressKeepsMatch DEF UpdateDeliveryStatus, OrderStatuses
  <2>5. CASE ConfirmDelivery(p, o)
    <3>1. order[o].status = "on_the_way"
      BY <2>5 DEF ConfirmDelivery
    <3>2. order' = [order EXCEPT ![o].status = "delivered"] /\ UNCHANGED assignment
      BY <2>5 DEF ConfirmDelivery, DeliverAndSettle
    <3> QED  BY <3>1, <3>2, ProgressKeepsMatch DEF OrderStatuses
  <2> QED  BY <1>2, <2>1, <2>2, <2>3, <2>4, <2>5 DEF Courier
<1>3. ASSUME NEW o \in Orders, BackOffice(o)
      PROVE  AssignmentMatchesOrder'
  <2>0. assignment[o] \in AssignmentRows
    BY DEF TypeOK
  <2>1. ASSUME NEW s \in OrderStatuses, AdminUpdateOrderStatus(o, s)
        PROVE  AssignmentMatchesOrder'
    <3>1. CASE s = "cancelled"
      BY <2>1, <3>1, CancelKeepsMatch DEF AdminUpdateOrderStatus
    <3>2. CASE s # "cancelled"
      <4>1. /\ order' = [order EXCEPT ![o].status = s]
            /\ UNCHANGED assignment
        BY <2>1, <3>2 DEF AdminUpdateOrderStatus, DeliverAndSettle
      <4>2. order[o].status # "cancelled"
        BY <2>1 DEF AdminUpdateOrderStatus, Forward, TerminalStatuses
      <4> QED  BY <3>2, <4>1, <4>2, ProgressKeepsMatch
    <3> QED  BY <3>1, <3>2
  <2>2. ASSUME NEW p \in Partners, ReassignTo(o, p)
        PROVE  AssignmentMatchesOrder'
    <3> DEFINE a == assignment[o]
               b == [a EXCEPT !.status = "accepted", !.accepted = p, !.age = Fresh,
                        !.notified = a.notified \cup {p}, !.rejected = a.rejected \ {p}]
    <3>1. b.status = "accepted" /\ b.accepted = p
      BY <2>0 DEF AssignmentRows
    <3>2. /\ Ready(o) /\ order' = [order EXCEPT ![o].courier = p]
          /\ assignment' = [assignment EXCEPT ![o] = b]
      BY <2>2 DEF ReassignTo
    <3> HIDE DEF b
    <3> QED  BY <3>1, <3>2, AssignKeepsMatch
  <2>3. CASE ReassignToNobody(o)
    <3>1. /\ order[o].status = "ready"
          /\ order' = [order EXCEPT ![o] = [order[o] EXCEPT !.courier = NoPartner]]
      BY <2>3 DEF ReassignToNobody, Ready
    <3>2. [order[o] EXCEPT !.courier = NoPartner]
              = [status |-> "ready", courier |-> NoPartner]
      BY <3>1 DEF TypeOK, OrderRows
    <3> QED  BY <2>3, <3>1, <3>2, RestartKeepsMatch DEF ReassignToNobody
  <2> QED  BY <1>3, <2>1, <2>2, <2>3 DEF BackOffice
<1>4. ASSUME NEW o \in Orders, Jobs(o)
      PROVE  AssignmentMatchesOrder'
  <2>0. assignment[o] \in AssignmentRows
    BY DEF TypeOK
  <2>1. CASE SearchIgnored(o) \/ WorkerDies(o)
    BY <2>1 DEF SearchIgnored, WorkerDies, AssignmentMatchesOrder
  <2>2. CASE SearchTooLate(o) \/ PollExpires(o)
    BY <2>2, TimedOutKeepsMatch DEF SearchTooLate, PollExpires, Searching, Live
  <2>3. ASSUME NEW near \in SUBSET Candidates(o), SearchNotifies(o, near)
        PROVE  AssignmentMatchesOrder'
    <3> DEFINE b == [assignment[o] EXCEPT !.status = "notified", !.age = Fresh,
                        !.notified = assignment[o].notified \cup near]
    <3>1. b.status = "notified" /\ b.accepted = assignment[o].accepted
      BY <2>0 DEF AssignmentRows
    <3>2. assignment' = [assignment EXCEPT ![o] = b] /\ UNCHANGED order
      BY <2>3 DEF SearchNotifies
    <3>3. assignment[o].status # "accepted"
      BY <2>3 DEF SearchNotifies, Searching, Live
    <3> HIDE DEF b
    <3> QED  BY <3>1, <3>2, <3>3, RowKeepsMatch
  <2>4. CASE SearchFindsNobody(o)
    BY <2>0, <2>4, ExpandKeepsMatch DEF SearchFindsNobody
  <2>5. ASSUME NEW r \in rejecting[o], RejectCommits(o, r)
        PROVE  AssignmentMatchesOrder'
    <3> DEFINE a == [assignment[o] EXCEPT !.rejected = @ \cup {r.partner}]
    <3>1. r \in Rejections
      BY DEF TypeOK
    <3>2. /\ a \in AssignmentRows
          /\ a.accepted = assignment[o].accepted /\ a.status = assignment[o].status
      BY <2>0, <3>1 DEF AssignmentRows, Rejections
    <3>3. UNCHANGED order
      BY <2>5 DEF RejectCommits
    <3>4. CASE r.expands /\ Searching(o) /\ Ready(o)
      <4>1. ExpandAndRetry(o, a, searchJobs)
        BY <2>5, <3>4 DEF RejectCommits
      <4> HIDE DEF a
      <4> QED  BY <3>2, <3>3, <3>4, <4>1, ExpandKeepsMatch
    <3>5. CASE ~(r.expands /\ Searching(o) /\ Ready(o))
      <4>1. assignment' = [assignment EXCEPT ![o] = a]
        BY <2>5, <3>5 DEF RejectCommits
      <4> HIDE DEF a
      <4> QED  BY <3>2, <3>3, <4>1, RowKeepsMatch
    <3> QED  BY <3>4, <3>5
  <2>6. CASE TimeoutFires(o)
    <3>1. CASE Searching(o)
      BY <2>6, <3>1, TimedOutKeepsMatch DEF TimeoutFires
    <3>2. CASE ~Searching(o)
      BY <2>6, <3>2 DEF TimeoutFires, AssignmentMatchesOrder
    <3> QED  BY <3>1, <3>2
  <2>7. CASE ObsoleteTimeoutFires(o)
    <3>1. CASE Searching(o) /\ assignment[o].age >= Grace
      BY <2>7, <3>1, TimedOutKeepsMatch DEF ObsoleteTimeoutFires
    <3>2. CASE ~(Searching(o) /\ assignment[o].age >= Grace)
      BY <2>7, <3>2 DEF ObsoleteTimeoutFires, AssignmentMatchesOrder
    <3> QED  BY <3>1, <3>2
  <2>8. CASE PollRestarts(o)
    <3> DEFINE b == [assignment[o] EXCEPT !.age = Fresh]
    <3>1. b.status = assignment[o].status /\ b.accepted = assignment[o].accepted
      BY <2>0 DEF AssignmentRows
    <3>2. assignment' = [assignment EXCEPT ![o] = b] /\ UNCHANGED order
      BY <2>8 DEF PollRestarts
    <3> HIDE DEF b
    <3> QED  BY <3>1, <3>2, RowKeepsMatch
  <2>9. CASE Ages(o)
    <3> DEFINE b == [assignment[o] EXCEPT !.age = assignment[o].age + 1]
    <3>1. b.status = assignment[o].status /\ b.accepted = assignment[o].accepted
      BY <2>0 DEF AssignmentRows
    <3>2. assignment' = [assignment EXCEPT ![o] = b] /\ UNCHANGED order
      BY <2>9 DEF Ages
    <3> HIDE DEF b
    <3> QED  BY <3>1, <3>2, RowKeepsMatch
  <2> QED
    BY <1>4, <2>1, <2>2, <2>3, <2>4, <2>5, <2>6, <2>7, <2>8, <2>9 DEF Jobs, RunSearch
<1>5. ASSUME NEW p \in Partners, CourierAlone(p) \/ BackOfficePartner(p)
      PROVE  AssignmentMatchesOrder'
  BY <1>5 DEF CourierAlone, BackOfficePartner, GoOnline, GoOffline, UpdateLocation,
     ApprovePartner, RejectPartner, EditPartner, AssignmentMatchesOrder
<1>6. CASE UNCHANGED vars
  BY <1>6 DEF vars, AssignmentMatchesOrder
<1> QED  BY <1>1, <1>2, <1>3, <1>4, <1>5, <1>6 DEF Next

\* The order row and the assignment row, written by separate saves in a dozen
\* handlers and jobs, always agree on who delivers.
THEOREM RowsAgree == Spec => []AssignmentMatchesOrder
<1>1. Init => AssignmentMatchesOrder
  BY DEF Init, NoAssignment, AssignmentMatchesOrder
<1> QED  BY <1>1, InitType, StepType, MatchStep, PTL DEF Spec
-----------------------------------------------------------------------------
(* No courier is left on a delivery.                                       *)

\* p had active orders before the step, and has none after it.
LosesLast(p) == ActiveOrders(p) # {} /\ ActiveOrders(p)' = {}

\* If a step changes order o only, o was the last one of p.
LEMMA LastOrder ==
    ASSUME NEW o \in Orders, NEW p \in Partners, LosesLast(p),
           \A x \in Orders \ {o} : order'[x] = order[x]
    PROVE  /\ order[o].courier = p /\ order[o].status \in ActiveStatuses
           /\ ~(order'[o].courier = p /\ order'[o].status \in ActiveStatuses)
           /\ StatusWithout(p, o) = "available"
<1>1. \A x \in ActiveOrders(p) : x = o
  BY DEF LosesLast, ActiveOrders
<1>2. o \in ActiveOrders(p)
  BY <1>1 DEF LosesLast
<1>3. o \notin ActiveOrders(p)'
  BY DEF LosesLast
<1>4. ActiveOrders(p) \ {o} = {}
  BY <1>1
<1>5. StatusWithout(p, o) = "available"
  BY <1>4 DEF StatusWithout
<1> QED  BY <1>2, <1>3, <1>5 DEF ActiveOrders

\* Whoever was the courier of the order that ended is freed.
LEMMA FreedIsAvailable ==
    ASSUME TypeOK, NEW o \in Orders, NEW p \in Partners, LosesLast(p),
           \A x \in Orders \ {o} : order'[x] = order[x],
           partner' = Freed(order[o].courier, o)
    PROVE  partner'[p].status # "on_delivery"
<1>1. order[o].courier = p /\ StatusWithout(p, o) = "available"
  BY LastOrder
<1>2. partner'[p] = [partner[p] EXCEPT !.status = "available"]
  BY <1>1 DEF Freed
<1>3. partner[p] \in PartnerRows
  BY DEF TypeOK
<1> QED  BY <1>2, <1>3 DEF PartnerRows

\* An order that goes on to another active status ends for nobody.
LEMMA ActiveStays ==
    ASSUME TypeOK, NEW o \in Orders, NEW p \in Partners, NEW s \in OrderStatuses,
           order' = [order EXCEPT ![o].status = s],
           order[o].status \in ActiveStatuses => s \in ActiveStatuses
    PROVE  ~LosesLast(p)
<1> SUFFICES ASSUME LosesLast(p) PROVE FALSE
  OBVIOUS
<1>1. \A x \in Orders \ {o} : order'[x] = order[x]
  BY DEF TypeOK
<1>2. order'[o].status = s /\ order'[o].courier = order[o].courier
  BY DEF TypeOK, OrderRows
<1> QED  BY <1>1, <1>2, LastOrder

LEMMA SameOrders ==
    ASSUME NEW p \in Partners, UNCHANGED order
    PROVE  ~LosesLast(p)
BY DEF LosesLast, ActiveOrders

LEMMA FreedStep ==
    ASSUME TypeOK, NEW p \in Partners, [Next]_vars, LosesLast(p)
    PROVE  partner'[p].status # "on_delivery"
<1>0. partner[p] \in PartnerRows /\ order \in [Orders -> OrderRows]
  BY DEF TypeOK
<1>1. ASSUME NEW o \in Orders, CancelWithEffects(o) \/ DeliverAndSettle(o)
      PROVE  partner'[p].status # "on_delivery"
  <2>1. \A x \in Orders \ {o} : order'[x] = order[x]
    BY <1>0, <1>1 DEF CancelWithEffects, DeliverAndSettle
  <2>2. partner' = Freed(order[o].courier, o)
    BY <1>1 DEF CancelWithEffects, DeliverAndSettle
  <2> QED  BY <2>1, <2>2, FreedIsAvailable
<1>2. ASSUME NEW o \in Orders, NEW s \in OrderStatuses, order' = [order EXCEPT ![o].status = s],
             order[o].status \in ActiveStatuses => s \in ActiveStatuses
      PROVE  FALSE
  BY <1>2, ActiveStays
<1>3. ASSUME UNCHANGED order
      PROVE  FALSE
  BY <1>3, SameOrders
<1>4. ASSUME NEW o \in Orders, VendorOrCustomer(o)
      PROVE  partner'[p].status # "on_delivery"
  <2>1. CASE VendorAdvances(o)
    <3>1. PICK s \in OrderStatuses :
              /\ <<order[o].status, s>> \in VendorMoves
              /\ order' = [order EXCEPT ![o].status = s]
      BY <2>1 DEF VendorAdvances
    <3>2. order[o].status \notin ActiveStatuses
      BY <3>1 DEF VendorMoves, ActiveStatuses
    <3> QED  BY <1>2, <3>1, <3>2
  <2>2. CASE CancelOrder(o)
    BY <1>1, <2>2 DEF CancelOrder
  <2>3. CASE VerifyPickupOtp(o)
    BY <1>2, <2>3 DEF VerifyPickupOtp, OrderStatuses, ActiveStatuses
  <2>4. CASE UNCHANGED order
    BY <1>3, <2>4
  <2> QED  BY <1>4, <2>1, <2>2, <2>3, <2>4
        DEF VendorOrCustomer, StartDeliverySearch, CancelDeliverySearch,
            StartHookEnqueues, StartHookFails
<1>5. ASSUME NEW o \in Orders, NEW q \in Partners, Courier(q, o)
      PROVE  partner'[p].status # "on_delivery"
  <2>1. CASE AcceptAssignment(q, o)
    <3>1. \A x \in Orders \ {o} : order'[x] = order[x]
      BY <1>0, <2>1 DEF AcceptAssignment
    <3>2. order[o].courier = NoPartner
      BY <2>1 DEF AcceptAssignment
    <3> QED  BY <3>1, <3>2, LastOrder, DispatchAssumption
  <2>2. CASE CancelAssignment(q, o)
    <3>1. \A x \in Orders \ {o} : order'[x] = order[x]
      BY <1>0, <2>2 DEF CancelAssignment
    <3>2. q = p
      BY <2>2, <3>1, LastOrder DEF CancelAssignment
    <3>3. partner'[p] = [partner[p] EXCEPT !.status = "available"]
      BY <2>2, <3>2 DEF CancelAssignment, TypeOK
    <3> QED  BY <1>0, <3>3 DEF PartnerRows
  <2>3. CASE UpdateDeliveryStatus(q, o)
    BY <1>2, <2>3 DEF UpdateDeliveryStatus, OrderStatuses, ActiveStatuses
  <2>4. CASE ConfirmDelivery(q, o)
    BY <1>1, <2>4 DEF ConfirmDelivery
  <2>5. CASE RejectBegins(q, o)
    BY <1>3, <2>5 DEF RejectBegins
  <2> QED  BY <1>5, <2>1, <2>2, <2>3, <2>4, <2>5 DEF Courier
<1>6. ASSUME NEW o \in Orders, BackOffice(o)
      PROVE  partner'[p].status # "on_delivery"
  <2>1. ASSUME NEW s \in OrderStatuses, AdminUpdateOrderStatus(o, s)
        PROVE  partner'[p].status # "on_delivery"
    <3>1. CASE s \in TerminalStatuses
      BY <1>1, <2>1, <3>1 DEF AdminUpdateOrderStatus, TerminalStatuses
    <3>2. CASE s \notin TerminalStatuses
      <4>1. order' = [order EXCEPT ![o].status = s] /\ Forward(order[o].status, s)
        BY <2>1, <3>2 DEF AdminUpdateOrderStatus, TerminalStatuses
      <4>2. order[o].status \in ActiveStatuses => s \in ActiveStatuses
        BY <3>2, <4>1 DEF Forward, Rank, OrderStatuses, ActiveStatuses, TerminalStatuses
      <4> QED  BY <1>2, <4>1, <4>2
    <3> QED  BY <3>1, <3>2
  <2>2. ASSUME NEW q \in Partners, ReassignTo(o, q)
        PROVE  partner'[p].status # "on_delivery"
    <3>1. /\ \A x \in Orders \ {o} : order'[x] = order[x]
          /\ order'[o].courier = q /\ order'[o].status = order[o].status
      BY <1>0, <2>2 DEF ReassignTo, OrderRows
    <3>2. p = order[o].courier /\ p # q /\ StatusWithout(p, o) = "available"
      BY <3>1, LastOrder
    <3>3. partner'[p] = Freed(p, o)[p]
      BY <2>2, <3>2 DEF ReassignTo
    <3>4. Freed(p, o)[p] = [partner[p] EXCEPT !.status = "available"]
      BY <3>2 DEF Freed
    <3> QED  BY <1>0, <3>3, <3>4 DEF PartnerRows
  <2>3. CASE ReassignToNobody(o)
    <3>1. \A x \in Orders \ {o} : order'[x] = order[x]
      BY <1>0, <2>3 DEF ReassignToNobody
    <3>2. partner' = Freed(order[o].courier, o)
      BY <2>3 DEF ReassignToNobody
    <3> QED  BY <3>1, <3>2, FreedIsAvailable
  <2> QED  BY <1>6, <2>1, <2>2, <2>3 DEF BackOffice
<1>7. ASSUME NEW o \in Orders, Jobs(o)
      PROVE  UNCHANGED order
  BY <1>7 DEF Jobs, RunSearch, SearchIgnored, SearchTooLate, SearchNotifies,
     SearchFindsNobody, RejectCommits, TimeoutFires, ObsoleteTimeoutFires,
     PollExpires, PollRestarts, WorkerDies, Ages
<1>8. ASSUME NEW q \in Partners, CourierAlone(q) \/ BackOfficePartner(q)
      PROVE  UNCHANGED order
  BY <1>8 DEF CourierAlone, BackOfficePartner, GoOnline, GoOffline, UpdateLocation,
     ApprovePartner, RejectPartner, EditPartner
<1>9. CASE UNCHANGED vars
  BY <1>3, <1>9 DEF vars
<1> QED  BY <1>3, <1>4, <1>5, <1>6, <1>7, <1>8, <1>9 DEF Next

\* Whichever handler ends a courier's last order - and each of them recomputes the
\* courier's status by itself - does not leave the courier "on_delivery".
THEOREM CouriersFreed == Spec => FreedWhenDone
<1>1. TypeOK /\ [Next]_vars => [\A p \in Partners :
          ActiveOrders(p) # {} /\ ActiveOrders(p)' = {} => partner'[p].status # "on_delivery"]_vars
  BY FreedStep DEF LosesLast
<1> QED  BY <1>1, TypeCorrect, PTL DEF Spec, FreedWhenDone
-----------------------------------------------------------------------------
(* No search is forgotten.                                                 *)

\* An order has an assignment only once it has been ready; without this a forgotten search
\* could become one that counts when the vendor moves the order on.
Begun(o) == order[o].status \notin {"placed", "confirmed", "preparing"}

Wakes(o) ==
    /\ assignment[o].status = "searching" /\ Ready(o)
          => searchJobs[o] > 0 \/ "current" \in startHook[o]
    /\ assignment[o].status = "notified" => timeoutJob[o]
    /\ assignment[o].status # "none" => Begun(o)

WakeInv == \A o \in Orders : Wakes(o)

\* A step of one order.
OnlyOf(o) ==
    \A x \in Orders \ {o} :
        /\ order'[x] = order[x] /\ assignment'[x] = assignment[x]
        /\ searchJobs'[x] = searchJobs[x] /\ timeoutJob'[x] = timeoutJob[x]
        /\ startHook'[x] = startHook[x]

LEMMA OthersWake ==
    ASSUME WakeInv, NEW o \in Orders, OnlyOf(o), Wakes(o)'
    PROVE  WakeInv'
<1> SUFFICES ASSUME NEW x \in Orders PROVE Wakes(x)'
  BY DEF WakeInv
<1>1. CASE x = o
  BY <1>1
<1>2. CASE x # o
  BY <1>2 DEF WakeInv, OnlyOf, Wakes, Ready, Begun
<1> QED
  BY <1>1, <1>2

\* A write of last_search_at schedules a timeout or not, and leaves its own hook.
LEMMA RewrittenTimes ==
    ASSUME TypeOK, NEW o \in Orders, NEW s \in BOOLEAN, NEW H, SearchTimeRewritten(o, s, H)
    PROVE  /\ timeoutJob'[o] = s /\ H \subseteq startHook'[o]
           /\ \A x \in Orders \ {o} : timeoutJob'[x] = timeoutJob[x] /\ startHook'[x] = startHook[x]
<1>1. /\ timeoutJob' = [timeoutJob EXCEPT ![o] = s]
      /\ startHook' = [startHook EXCEPT ![o] = H \cup {"superseded" : h \in startHook[o]}]
  BY DEF SearchTimeRewritten
<1> QED
  BY <1>1 DEF TypeOK

\* What is queued by a queue that is up is there.
LEMMA QueuedIsThere ==
    ASSUME NEW jobs \in [Orders -> 0..MaxJobs], NEW o \in Orders
    PROVE  /\ Enqueued(jobs, o)[o] > 0
           /\ \A x \in Orders \ {o} : Enqueued(jobs, o)[x] = jobs[x]
BY DispatchAssumption DEF Enqueued, OneMore

LEMMA QueuedSearch ==
    ASSUME Faults \subseteq {"start"}, NEW jobs \in [Orders -> 0..MaxJobs], NEW o \in Orders,
           EnqueueSearch(jobs, o)
    PROVE  searchJobs'[o] > 0 /\ \A x \in Orders \ {o} : searchJobs'[x] = jobs[x]
BY QueuedIsThere DEF EnqueueSearch

LEMMA TakeOthers ==
    ASSUME TypeOK, NEW o \in Orders
    PROVE  \A x \in Orders \ {o} : TakeJob(o)[x] = searchJobs[x]
BY DEF TypeOK, TakeJob

\* The order and its assignment are rewritten and the search is queued.
LEMMA RestartWakes ==
    ASSUME Faults \subseteq {"start"}, TypeOK, WakeInv, NEW o \in Orders,
           \A x \in Orders \ {o} : order'[x] = order[x] /\ assignment'[x] = assignment[x],
           Begun(o)', assignment'[o].status = "searching",
           SearchTimeRewritten(o, FALSE, {}),
           searchJobs'[o] > 0, \A x \in Orders \ {o} : searchJobs'[x] = searchJobs[x]
    PROVE  WakeInv'
<1>1. OnlyOf(o)
  BY RewrittenTimes DEF OnlyOf
<1>2. Wakes(o)'
  BY DEF Wakes
<1> QED
  BY <1>1, <1>2, OthersWake

\* The search ends, or never was.
LEMMA EndWakes ==
    ASSUME TypeOK, WakeInv, NEW o \in Orders, OnlyOf(o),
           assignment'[o].status \notin Live,
           assignment'[o].status # "none" => Begun(o)'
    PROVE  WakeInv'
<1>1. Wakes(o)'
  BY DEF Wakes, Live
<1> QED
  BY <1>1, OthersWake

\* A step that leaves the order's status, the assignment's and what wakes them alone.
LEMMA SameWakes ==
    ASSUME TypeOK, WakeInv, NEW o \in Orders, OnlyOf(o),
           order'[o].status = order[o].status, assignment'[o].status = assignment[o].status,
           searchJobs[o] > 0 => searchJobs'[o] > 0, startHook[o] \subseteq startHook'[o],
           timeoutJob'[o] = timeoutJob[o]
    PROVE  WakeInv'
<1>1. Wakes(o)
  BY DEF WakeInv
<1>2. "current" \in startHook[o] => "current" \in startHook'[o]
  OBVIOUS
<1>3. Wakes(o)'
  BY <1>1, <1>2 DEF Wakes, Ready, Begun
<1> QED
  BY <1>3, OthersWake

\* The order moves forward and nothing else changes.
LEMMA ProgressWakes ==
    ASSUME TypeOK, WakeInv, NEW o \in Orders, NEW s \in OrderStatuses, OrderProgresses(o, s),
           UNCHANGED <<assignment, pending>>
    PROVE  WakeInv'
<1>1. order'[o].status = s /\ \A x \in Orders \ {o} : order'[x] = order[x]
  BY DEF TypeOK, OrderRows, OrderProgresses
<1>2. OnlyOf(o)
  BY <1>1 DEF OnlyOf, pending
<1>3. Begun(o) => Begun(o)' /\ s # "ready"
  BY <1>1 DEF Begun, OrderProgresses, Forward, Rank, OrderStatuses, TerminalStatuses, TypeOK, OrderRows
<1>4. Wakes(o)'
  <2>1. Wakes(o)
    BY DEF WakeInv
  <2> QED
    BY <1>1, <1>3, <2>1 DEF Wakes, Ready, pending
<1> QED
  BY <1>2, <1>4, OthersWake

LEMMA CancelWakes ==
    ASSUME TypeOK, WakeInv, NEW o \in Orders, CancelWithEffects(o)
    PROVE  WakeInv'
<1>1. order'[o].status = "cancelled" /\ \A x \in Orders \ {o} : order'[x] = order[x]
  BY DEF TypeOK, OrderRows, CancelWithEffects
<1>2. /\ assignment'[o].status \in {"none", "cancelled"}
      /\ \A x \in Orders \ {o} : assignment'[x] = assignment[x]
  BY DEF TypeOK, AssignmentRows, CancelWithEffects
<1>3. OnlyOf(o)
  BY <1>1, <1>2 DEF OnlyOf, CancelWithEffects, pending
<1> QED
  BY <1>1, <1>2, <1>3, EndWakes DEF Begun, Live

LEMMA TimedOutWakes ==
    ASSUME TypeOK, WakeInv, NEW o \in Orders, assignment[o].status # "none",
           assignment' = TimedOut(o), UNCHANGED order,
           \A x \in Orders \ {o} : /\ searchJobs'[x] = searchJobs[x] /\ timeoutJob'[x] = timeoutJob[x]
                                   /\ startHook'[x] = startHook[x]
    PROVE  WakeInv'
<1>1. /\ assignment'[o].status = "timed_out"
      /\ \A x \in Orders \ {o} : assignment'[x] = assignment[x]
  BY DEF TypeOK, AssignmentRows, TimedOut
<1>2. OnlyOf(o)
  BY <1>1 DEF OnlyOf
<1>3. Begun(o)'
  BY DEF WakeInv, Wakes, Begun
<1> QED
  BY <1>1, <1>2, <1>3, EndWakes DEF Live

\* One step wider, or given up.
LEMMA ExpandWakes ==
    ASSUME Faults \subseteq {"start"}, TypeOK, WakeInv, NEW o \in Orders, NEW a \in AssignmentRows,
           Searching(o), UNCHANGED order,
           NEW jobs \in [Orders -> 0..MaxJobs], \A x \in Orders \ {o} : jobs[x] = searchJobs[x],
           ExpandAndRetry(o, a, jobs)
    PROVE  WakeInv'
<1>1. Begun(o)'
  BY DEF WakeInv, Wakes, Begun, Searching, Live
<1>2. CASE a.radius = MaxRadius
  <2>1. /\ assignment' = [assignment EXCEPT ![o] = [a EXCEPT !.status = "failed"]]
        /\ searchJobs' = jobs /\ UNCHANGED <<timeoutJob, startHook>>
    BY <1>2 DEF ExpandAndRetry
  <2>2. assignment'[o].status = "failed" /\ \A x \in Orders \ {o} : assignment'[x] = assignment[x]
    BY <2>1 DEF TypeOK, AssignmentRows
  <2>3. OnlyOf(o)
    BY <2>1, <2>2 DEF OnlyOf
  <2> QED
    BY <1>1, <2>2, <2>3, EndWakes DEF Live
<1>3. CASE a.radius # MaxRadius
  <2> DEFINE wider == [a EXCEPT !.status = "searching", !.radius = @ + 1, !.age = Fresh]
  <2>1. /\ assignment' = [assignment EXCEPT ![o] = wider]
        /\ SearchTimeRewritten(o, FALSE, {}) /\ EnqueueSearch(jobs, o)
    BY <1>3 DEF ExpandAndRetry
  <2>2. wider.status = "searching"
    BY DEF AssignmentRows
  <2> HIDE DEF wider
  <2>3. assignment'[o].status = "searching" /\ \A x \in Orders \ {o} : assignment'[x] = assignment[x]
    BY <2>1, <2>2 DEF TypeOK
  <2>4. searchJobs'[o] > 0 /\ \A x \in Orders \ {o} : searchJobs'[x] = searchJobs[x]
    BY <2>1, QueuedSearch
  <2> QED
    BY <1>1, <2>1, <2>3, <2>4, RestartWakes
<1> QED
  BY <1>2, <1>3

LEMMA VendorWakes ==
    ASSUME Faults \subseteq {"start"}, TypeOK, WakeInv, NEW o \in Orders, VendorOrCustomer(o)
    PROVE  WakeInv'
<1>0. assignment[o] \in AssignmentRows
  BY DEF TypeOK
<1>1. CASE VendorAdvances(o)
  <2>1. PICK s \in OrderStatuses : /\ <<order[o].status, s>> \in VendorMoves
                                   /\ order' = [order EXCEPT ![o].status = s]
                                   /\ UNCHANGED <<assignment, pending>>
    BY <1>1 DEF VendorAdvances
  <2>2. OrderProgresses(o, s)
    BY <2>1, ForwardMoves DEF TypeOK, OrderRows, OrderProgresses
  <2> QED
    BY <2>1, <2>2, ProgressWakes
<1>2. CASE CancelOrder(o)
  BY <1>2, CancelWakes DEF CancelOrder
<1>3. CASE VerifyPickupOtp(o)
  <2>1. OrderProgresses(o, "picked_up")
    BY <1>3, ForwardMoves DEF VerifyPickupOtp, Ready, OrderProgresses
  <2> QED
    BY <1>3, <2>1, ProgressWakes DEF VerifyPickupOtp, OrderStatuses
<1>4. CASE StartDeliverySearch(o)
  <2>1. /\ assignment' = [assignment EXCEPT ![o] = Restarted(@)]
        /\ SearchTimeRewritten(o, FALSE, {"current"})
        /\ UNCHANGED <<order, searchJobs>> /\ order[o].status = "ready"
    BY <1>4 DEF StartDeliverySearch, Ready
  <2>2. assignment'[o].status = "searching" /\ \A x \in Orders \ {o} : assignment'[x] = assignment[x]
    BY <1>0, <2>1 DEF TypeOK, Restarted, AssignmentRows
  <2>3. /\ "current" \in startHook'[o]
        /\ \A x \in Orders \ {o} : timeoutJob'[x] = timeoutJob[x] /\ startHook'[x] = startHook[x]
    BY <2>1, RewrittenTimes
  <2>4. OnlyOf(o)
    BY <2>1, <2>2, <2>3 DEF OnlyOf
  <2>5. Wakes(o)'
    BY <2>1, <2>2, <2>3 DEF Wakes, Begun
  <2> QED
    BY <2>4, <2>5, OthersWake
<1>5. CASE CancelDeliverySearch(o)
  <2>1. /\ assignment'[o].status = "cancelled"
        /\ \A x \in Orders \ {o} : assignment'[x] = assignment[x]
    BY <1>0, <1>5 DEF CancelDeliverySearch, TypeOK, AssignmentRows
  <2>2. OnlyOf(o)
    BY <1>5, <2>1 DEF CancelDeliverySearch, OnlyOf, pending
  <2>3. Begun(o)'
    BY <1>5 DEF CancelDeliverySearch, WakeInv, Wakes, Begun, Searching, Live
  <2> QED
    BY <2>1, <2>2, <2>3, EndWakes DEF Live
<1>6. ASSUME NEW h \in startHook[o], StartHookEnqueues(o, h)
      PROVE  WakeInv'
  <2>1. /\ searchJobs' = Enqueued(searchJobs, o) /\ startHook' = [startHook EXCEPT ![o] = @ \ {h}]
        /\ UNCHANGED <<order, assignment, timeoutJob>>
    BY <1>6 DEF StartHookEnqueues
  <2>2. searchJobs'[o] > 0 /\ \A x \in Orders \ {o} : searchJobs'[x] = searchJobs[x]
    BY <2>1, QueuedIsThere DEF TypeOK
  <2>3. OnlyOf(o)
    BY <2>1, <2>2 DEF OnlyOf, TypeOK
  <2>4. Wakes(o)'
    BY <2>1, <2>2 DEF WakeInv, Wakes, Begun
  <2> QED
    BY <2>3, <2>4, OthersWake
<1>7. ASSUME NEW h \in startHook[o], StartHookFails(o, h)
      PROVE  WakeInv'
  <2>1. /\ startHook' = [startHook EXCEPT ![o] = @ \ {h}]
        /\ UNCHANGED <<order, searchJobs, timeoutJob>>
    BY <1>7 DEF StartHookFails
  <2>2. CASE h = "current" /\ assignment[o].status = "searching"
    <3>1. /\ assignment'[o].status = "failed"
          /\ \A x \in Orders \ {o} : assignment'[x] = assignment[x]
      BY <1>0, <1>7, <2>2 DEF StartHookFails, TypeOK, AssignmentRows
    <3>2. OnlyOf(o)
      BY <2>1, <3>1 DEF OnlyOf, TypeOK
    <3>3. Begun(o)'
      BY <2>1, <2>2 DEF WakeInv, Wakes, Begun
    <3> QED
      BY <3>1, <3>2, <3>3, EndWakes DEF Live
  <2>3. CASE ~(h = "current" /\ assignment[o].status = "searching")
    <3>1. UNCHANGED assignment
      BY <1>7, <2>3 DEF StartHookFails
    <3>2. OnlyOf(o)
      BY <2>1, <3>1 DEF OnlyOf, TypeOK
    <3>3. assignment[o].status = "searching" /\ "current" \in startHook[o] => "current" \in startHook'[o]
      BY <2>1, <2>3 DEF TypeOK
    <3>4. Wakes(o)'
      BY <2>1, <3>1, <3>3 DEF WakeInv, Wakes, Ready, Begun
    <3> QED
      BY <3>2, <3>4, OthersWake
  <2> QED
    BY <2>2, <2>3
<1> QED
  BY <1>1, <1>2, <1>3, <1>4, <1>5, <1>6, <1>7 DEF VendorOrCustomer

\* An order whose assignment a courier or the back office takes
LEMMA AcceptedWakes ==
    ASSUME TypeOK, WakeInv, NEW o \in Orders, NEW p, Ready(o),
           order' = [order EXCEPT ![o].courier = p],
           NEW b, assignment' = [assignment EXCEPT ![o] = b], b.status = "accepted",
           \A x \in Orders \ {o} : /\ searchJobs'[x] = searchJobs[x] /\ timeoutJob'[x] = timeoutJob[x]
                                   /\ startHook'[x] = startHook[x]
    PROVE  WakeInv'
<1>1. order'[o].status = "ready" /\ \A x \in Orders \ {o} : order'[x] = order[x]
  BY DEF TypeOK, OrderRows, Ready
<1>2. assignment'[o].status = "accepted" /\ \A x \in Orders \ {o} : assignment'[x] = assignment[x]
  BY DEF TypeOK
<1>3. OnlyOf(o)
  BY <1>1, <1>2 DEF OnlyOf
<1> QED
  BY <1>1, <1>2, <1>3, EndWakes DEF Live, Begun

LEMMA CourierWakes ==
    ASSUME Faults \subseteq {"start"}, TypeOK, WakeInv, NEW o \in Orders, NEW p \in Partners, Courier(p, o)
    PROVE  WakeInv'
<1>0. assignment[o] \in AssignmentRows
  BY DEF TypeOK
<1>1. CASE AcceptAssignment(p, o)
  <2> DEFINE b == [assignment[o] EXCEPT !.status = "accepted", !.accepted = p]
  <2>1. b.status = "accepted"
    BY <1>0 DEF AssignmentRows
  <2>2. /\ Ready(o) /\ order' = [order EXCEPT ![o].courier = p]
        /\ assignment' = [assignment EXCEPT ![o] = b] /\ UNCHANGED pending
    BY <1>1 DEF AcceptAssignment
  <2> HIDE DEF b
  <2> QED
    BY <2>1, <2>2, AcceptedWakes DEF pending
<1>2. CASE RejectBegins(p, o)
  BY <1>2 DEF RejectBegins, WakeInv, Wakes, Ready, Begun
<1>3. CASE CancelAssignment(p, o)
  <2>1. /\ order' = [order EXCEPT ![o] = [status |-> "ready", courier |-> NoPartner]]
        /\ assignment' = [assignment EXCEPT ![o] = [Restarted(@) EXCEPT !.accepted = NoPartner]]
        /\ SearchTimeRewritten(o, FALSE, {}) /\ EnqueueSearch(searchJobs, o)
    BY <1>3 DEF CancelAssignment
  <2>2. /\ order'[o].status = "ready" /\ assignment'[o].status = "searching"
        /\ \A x \in Orders \ {o} : order'[x] = order[x] /\ assignment'[x] = assignment[x]
    BY <1>0, <2>1 DEF TypeOK, Restarted, AssignmentRows
  <2>3. searchJobs'[o] > 0 /\ \A x \in Orders \ {o} : searchJobs'[x] = searchJobs[x]
    BY <2>1, QueuedSearch DEF TypeOK
  <2> QED
    BY <2>1, <2>2, <2>3, RestartWakes DEF Begun
<1>4. CASE UpdateDeliveryStatus(p, o)
  <2>1. OrderProgresses(o, "on_the_way")
    BY <1>4, ForwardMoves DEF UpdateDeliveryStatus, OrderProgresses
  <2> QED
    BY <1>4, <2>1, ProgressWakes DEF UpdateDeliveryStatus, OrderStatuses
<1>5. CASE ConfirmDelivery(p, o)
  <2>1. OrderProgresses(o, "delivered")
    BY <1>5, ForwardMoves DEF ConfirmDelivery, DeliverAndSettle, OrderProgresses
  <2> QED
    BY <1>5, <2>1, ProgressWakes DEF ConfirmDelivery, DeliverAndSettle, OrderStatuses
<1> QED
  BY <1>1, <1>2, <1>3, <1>4, <1>5 DEF Courier

LEMMA BackOfficeWakes ==
    ASSUME Faults \subseteq {"start"}, TypeOK, WakeInv, NEW o \in Orders, BackOffice(o)
    PROVE  WakeInv'
<1>0. assignment[o] \in AssignmentRows
  BY DEF TypeOK
<1>1. ASSUME NEW s \in OrderStatuses, AdminUpdateOrderStatus(o, s)
      PROVE  WakeInv'
  <2>1. CASE s = "cancelled"
    BY <1>1, <2>1, CancelWakes DEF AdminUpdateOrderStatus
  <2>2. CASE s # "cancelled"
    <3>1. /\ OrderProgresses(o, s) /\ UNCHANGED <<assignment, pending>>
      BY <1>1, <2>2 DEF AdminUpdateOrderStatus, DeliverAndSettle, OrderProgresses
    <3> QED
      BY <3>1, ProgressWakes
  <2> QED
    BY <2>1, <2>2
<1>2. ASSUME NEW p \in Partners, ReassignTo(o, p)
      PROVE  WakeInv'
  <2> DEFINE a == assignment[o]
             b == [a EXCEPT !.status = "accepted", !.accepted = p, !.age = Fresh,
                            !.notified = a.notified \cup {p}, !.rejected = a.rejected \ {p}]
  <2>1. b.status = "accepted"
    BY <1>0 DEF AssignmentRows
  <2>2. /\ Ready(o) /\ order' = [order EXCEPT ![o].courier = p]
        /\ assignment' = [assignment EXCEPT ![o] = b]
        /\ SearchTimeRewritten(o, FALSE, {}) /\ UNCHANGED searchJobs
    BY <1>2 DEF ReassignTo
  <2> HIDE DEF b
  <2>3. \A x \in Orders \ {o} : timeoutJob'[x] = timeoutJob[x] /\ startHook'[x] = startHook[x]
    BY <2>2, RewrittenTimes
  <2> QED
    BY <2>1, <2>2, <2>3, AcceptedWakes
<1>3. CASE ReassignToNobody(o)
  <2>1. /\ Ready(o) /\ order' = [order EXCEPT ![o].courier = NoPartner]
        /\ assignment' = [assignment EXCEPT ![o] = [Restarted(@) EXCEPT !.accepted = NoPartner]]
        /\ SearchTimeRewritten(o, FALSE, {}) /\ EnqueueSearch(searchJobs, o)
    BY <1>3 DEF ReassignToNobody
  <2>2. /\ order'[o].status = "ready" /\ assignment'[o].status = "searching"
        /\ \A x \in Orders \ {o} : order'[x] = order[x] /\ assignment'[x] = assignment[x]
    BY <1>0, <2>1 DEF TypeOK, OrderRows, Restarted, AssignmentRows, Ready
  <2>3. searchJobs'[o] > 0 /\ \A x \in Orders \ {o} : searchJobs'[x] = searchJobs[x]
    BY <2>1, QueuedSearch DEF TypeOK
  <2> QED
    BY <2>1, <2>2, <2>3, RestartWakes DEF Begun
<1> QED
  BY <1>1, <1>2, <1>3 DEF BackOffice

LEMMA SearchWakes ==
    ASSUME Faults \subseteq {"start"}, TypeOK, WakeInv, NEW o \in Orders, RunSearch(o)
    PROVE  WakeInv'
<1>0. /\ assignment[o] \in AssignmentRows
      /\ \A x \in Orders \ {o} : TakeJob(o)[x] = searchJobs[x]
  BY TakeOthers DEF TypeOK
<1>1. CASE SearchIgnored(o)
  <2>1. OnlyOf(o)
    BY <1>0, <1>1 DEF SearchIgnored, OnlyOf
  <2>2. Wakes(o)'
    BY <1>1 DEF SearchIgnored, WakeInv, Wakes, Ready, Begun, Searching, Live
  <2> QED
    BY <2>1, <2>2, OthersWake
<1>2. CASE SearchTooLate(o)
  BY <1>0, <1>2, TimedOutWakes DEF SearchTooLate, Searching, Live
<1>3. ASSUME NEW near \in SUBSET Candidates(o), SearchNotifies(o, near)
      PROVE  WakeInv'
  <2> DEFINE b == [assignment[o] EXCEPT !.status = "notified", !.age = Fresh,
                      !.notified = assignment[o].notified \cup near]
  <2>1. b.status = "notified"
    BY <1>0 DEF AssignmentRows
  <2>2. /\ assignment' = [assignment EXCEPT ![o] = b] /\ UNCHANGED order
        /\ searchJobs' = TakeJob(o) /\ SearchTimeRewritten(o, TRUE, {}) /\ Ready(o)
    BY <1>3 DEF SearchNotifies
  <2> HIDE DEF b
  <2>3. assignment'[o].status = "notified" /\ \A x \in Orders \ {o} : assignment'[x] = assignment[x]
    BY <2>1, <2>2 DEF TypeOK
  <2>4. /\ timeoutJob'[o] = TRUE
        /\ \A x \in Orders \ {o} : timeoutJob'[x] = timeoutJob[x] /\ startHook'[x] = startHook[x]
    BY <2>2, RewrittenTimes
  <2>5. OnlyOf(o)
    BY <1>0, <2>2, <2>3, <2>4 DEF OnlyOf
  <2>6. Wakes(o)'
    BY <2>2, <2>3, <2>4 DEF Wakes, Begun, Ready
  <2> QED
    BY <2>5, <2>6, OthersWake
<1>4. CASE SearchFindsNobody(o)
  <2>1. TakeJob(o) \in [Orders -> 0..MaxJobs]
    BY <1>4, TakeJobType DEF SearchFindsNobody
  <2> QED
    BY <1>0, <1>4, <2>1, ExpandWakes DEF SearchFindsNobody
<1> QED
  BY <1>1, <1>2, <1>3, <1>4 DEF RunSearch

LEMMA JobsWake ==
    ASSUME Faults \subseteq {"start"}, TypeOK, WakeInv, NEW o \in Orders, Jobs(o)
    PROVE  WakeInv'
<1>0. assignment[o] \in AssignmentRows
  BY DEF TypeOK
<1>1. CASE RunSearch(o)
  BY <1>1, SearchWakes
<1>2. ASSUME NEW r \in rejecting[o], RejectCommits(o, r)
      PROVE  WakeInv'
  <2> DEFINE a == [assignment[o] EXCEPT !.rejected = @ \cup {r.partner}]
  <2>1. r \in Rejections
    BY DEF TypeOK
  <2>2. a \in AssignmentRows /\ a.status = assignment[o].status
    BY <1>0, <2>1 DEF AssignmentRows, Rejections
  <2>3. CASE r.expands /\ Searching(o) /\ Ready(o)
    <3>1. ExpandAndRetry(o, a, searchJobs) /\ UNCHANGED order
      BY <1>2, <2>3 DEF RejectCommits
    <3> HIDE DEF a
    <3> QED
      BY <2>2, <2>3, <3>1, ExpandWakes DEF TypeOK
  <2>4. CASE ~(r.expands /\ Searching(o) /\ Ready(o))
    <3>1. /\ assignment' = [assignment EXCEPT ![o] = a]
          /\ UNCHANGED <<order, searchJobs, timeoutJob, startHook>>
      BY <1>2, <2>4 DEF RejectCommits
    <3> HIDE DEF a
    <3>2. /\ assignment'[o].status = assignment[o].status
          /\ \A x \in Orders \ {o} : assignment'[x] = assignment[x]
      BY <2>2, <3>1 DEF TypeOK
    <3>3. OnlyOf(o)
      BY <3>1, <3>2 DEF OnlyOf
    <3> QED
      BY <3>1, <3>2, <3>3, SameWakes
  <2> QED
    BY <2>3, <2>4
<1>3. CASE TimeoutFires(o)
  <2>1. \A x \in Orders \ {o} : timeoutJob'[x] = timeoutJob[x]
    BY <1>3 DEF TimeoutFires, TypeOK
  <2>2. CASE Searching(o)
    BY <1>3, <2>1, <2>2, TimedOutWakes DEF TimeoutFires, Searching, Live
  <2>3. CASE ~Searching(o)
    <3>1. UNCHANGED <<order, assignment, searchJobs, startHook>>
      BY <1>3, <2>3 DEF TimeoutFires
    <3>2. OnlyOf(o)
      BY <2>1, <3>1 DEF OnlyOf
    <3>3. Wakes(o)'
      BY <2>3, <3>1 DEF WakeInv, Wakes, Begun, Searching, Live
    <3> QED
      BY <3>2, <3>3, OthersWake
  <2> QED
    BY <2>2, <2>3
<1>4. CASE ObsoleteTimeoutFires(o)
  <2>1. UNCHANGED <<order, searchJobs, timeoutJob, startHook>>
    BY <1>4 DEF ObsoleteTimeoutFires
  <2>2. CASE Searching(o) /\ assignment[o].age >= Grace
    BY <1>4, <2>1, <2>2, TimedOutWakes DEF ObsoleteTimeoutFires, Searching, Live
  <2>3. CASE ~(Searching(o) /\ assignment[o].age >= Grace)
    BY <1>4, <2>1, <2>3 DEF ObsoleteTimeoutFires, WakeInv, Wakes, Ready, Begun
  <2> QED
    BY <2>2, <2>3
<1>5. CASE PollExpires(o)
  BY <1>5, TimedOutWakes DEF PollExpires, pending
<1>6. CASE PollRestarts(o)
  <2> DEFINE b == [assignment[o] EXCEPT !.age = Fresh]
  <2>1. /\ assignment' = [assignment EXCEPT ![o] = b] /\ UNCHANGED order
        /\ SearchTimeRewritten(o, FALSE, {}) /\ EnqueueSearch(searchJobs, o)
        /\ assignment[o].status = "searching"
    BY <1>6 DEF PollRestarts
  <2>2. b.status = "searching"
    BY <1>0, <2>1 DEF AssignmentRows
  <2> HIDE DEF b
  <2>3. assignment'[o].status = "searching" /\ \A x \in Orders \ {o} : assignment'[x] = assignment[x]
    BY <2>1, <2>2 DEF TypeOK
  <2>4. searchJobs'[o] > 0 /\ \A x \in Orders \ {o} : searchJobs'[x] = searchJobs[x]
    BY <2>1, QueuedSearch DEF TypeOK
  <2>5. Begun(o)'
    BY <2>1 DEF WakeInv, Wakes, Begun
  <2> QED
    BY <2>1, <2>3, <2>4, <2>5, RestartWakes
<1>7. CASE WorkerDies(o)
  BY <1>7 DEF WorkerDies
<1>8. CASE Ages(o)
  <2> DEFINE b == [assignment[o] EXCEPT !.age = assignment[o].age + 1]
  <2>1. /\ assignment' = [assignment EXCEPT ![o] = b]
        /\ UNCHANGED <<order, searchJobs, timeoutJob, startHook>>
    BY <1>8 DEF Ages, pending
  <2>2. b.status = assignment[o].status
    BY <1>0 DEF AssignmentRows
  <2> HIDE DEF b
  <2>3. /\ assignment'[o].status = assignment[o].status
        /\ \A x \in Orders \ {o} : assignment'[x] = assignment[x]
    BY <2>1, <2>2 DEF TypeOK
  <2>4. OnlyOf(o)
    BY <2>1, <2>3 DEF OnlyOf
  <2> QED
    BY <2>1, <2>3, <2>4, SameWakes
<1> QED
  BY <1>1, <1>2, <1>3, <1>4, <1>5, <1>6, <1>7, <1>8 DEF Jobs

\* Couriers wake searches, if anything.
LEMMA PartnersWake ==
    ASSUME Faults \subseteq {"start"}, TypeOK, WakeInv, NEW p \in Partners,
           CourierAlone(p) \/ BackOfficePartner(p)
    PROVE  WakeInv'
<1>1. UNCHANGED <<order, assignment, timeoutJob, startHook>>
  BY DEF CourierAlone, BackOfficePartner, GoOnline, GoOffline, UpdateLocation, ApprovePartner,
     RejectPartner, EditPartner, pending
<1>2. EnqueueLiveSearches \/ UNCHANGED searchJobs
  BY DEF CourierAlone, BackOfficePartner, GoOnline, GoOffline, UpdateLocation, ApprovePartner,
     RejectPartner, EditPartner, pending
<1>3. \A o \in Orders : searchJobs[o] > 0 => searchJobs'[o] > 0
  <2>1. CASE EnqueueLiveSearches
    <3>1. PICK sent \in SUBSET Orders : searchJobs' = [o \in Orders |->
               IF o \in sent THEN OneMore(searchJobs[o], MaxJobs) ELSE searchJobs[o]]
      BY <2>1 DEF EnqueueLiveSearches
    <3>2. \A o \in Orders : searchJobs[o] \in Nat
      BY DEF TypeOK
    <3> QED
      BY <3>1, <3>2 DEF OneMore
  <2>2. CASE UNCHANGED searchJobs
    BY <2>2
  <2> QED
    BY <1>2, <2>1, <2>2
<1> QED
  BY <1>1, <1>3 DEF WakeInv, Wakes, Ready, Begun

LEMMA WakeStep ==
    ASSUME Faults \subseteq {"start"}, TypeOK, WakeInv, [Next]_vars
    PROVE  WakeInv'
<1>1. CASE UNCHANGED vars
  BY <1>1 DEF vars, WakeInv, Wakes, Ready, Begun
<1> QED
  BY <1>1, VendorWakes, CourierWakes, BackOfficeWakes, JobsWake, PartnersWake DEF Next

\* No search is forgotten, with any number of orders and couriers, however rejections,
\* cancellations and timeouts cut across each other; if workers do not die, and the queue
\* fails only where its failure is handled.
THEOREM SearchesWakeUp ==
    ASSUME Faults \subseteq {"start"}
    PROVE  Spec => []SearchHasWakeup
<1>1. Init => WakeInv
  BY DEF Init, NoAssignment, WakeInv, Wakes, Ready
<1>2. TypeOK /\ WakeInv /\ [Next]_vars => WakeInv'
  BY WakeStep
<1>3. WakeInv => SearchHasWakeup
  BY DEF WakeInv, Wakes, SearchHasWakeup
<1> QED
  BY <1>1, <1>2, <1>3, TypeCorrect, PTL DEF Spec
=============================================================================
