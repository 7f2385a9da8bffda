------------------------------ MODULE Dispatch ------------------------------
(***************************************************************************)
(* Finding a courier for a ready order: the vendor, courier, customer and  *)
(* back-office handlers that touch an order's delivery phase, and the      *)
(* background jobs behind them (delivery/tasks.py, delivery/actions,       *)
(* vendors/actions/orders.py).                                             *)
(*                                                                         *)
(* A handler that runs under the order's row lock is one action.  What it  *)
(* leaves for later is state: a queued search job, a scheduled timeout, an *)
(* on_commit hook that has still to talk to the queue.  RejectAssignment   *)
(* takes no lock before its two-second sleep and is split there.           *)
(*                                                                         *)
(* Time is the age of last_search_at in four classes; each assignment ages *)
(* on its own.  Distances are left out: couriers move, so which candidates *)
(* a search finds in range is arbitrary.                                   *)
(***************************************************************************)
EXTENDS OrderLifecycle, FiniteSets

CONSTANTS
    Orders,
    Partners,       \* delivery partners (couriers)
    NoPartner,      \* a null foreign key
    MaxRadius,      \* max_radius_km / 2 km: the number of radius steps (10)
    MaxJobs,        \* cap on the search jobs queued for one order
    MaxObsolete,    \* cap on the overtaken timeouts still scheduled per order
    Faults          \* which parts of the job queue may fail, see FaultKinds

\* "start": the enqueue of StartDeliverySearch raises; "enqueue": any other
\* enqueue raises after its transaction committed; "worker": a worker dies and
\* its job is not retried.
FaultKinds == {"start", "enqueue", "worker"}

ASSUME DispatchAssumption ==
    /\ NoPartner \notin Partners
    /\ IsFiniteSet(Partners)
    /\ MaxRadius \in Nat \ {0}
    /\ MaxJobs \in Nat \ {0}
    /\ MaxObsolete \in Nat
    /\ Faults \subseteq FaultKinds

VARIABLES
    order,              \* status and delivery_partner of each Order
    assignment,         \* its DeliveryAssignment
    partner,            \* the DeliveryPartner rows
    searchJobs,         \* search_and_notify_partners jobs waiting per order
    timeoutJob,         \* the timeout scheduled when couriers were last notified
    obsoleteTimeouts,   \* timeouts of earlier notifications still scheduled
    startHook,          \* StartDeliverySearch commits that have not enqueued yet
    rejecting           \* rejections not committed yet

vars == <<order, assignment, partner, searchJobs, timeoutJob,
          obsoleteTimeouts, startHook, rejecting>>

\* Everything but the three rows: the jobs, timers and hooks.
pending == <<searchJobs, timeoutJob, obsoleteTimeouts, startHook, rejecting>>
-----------------------------------------------------------------------------
PartnerOrNone == Partners \cup {NoPartner}

\* Age of last_search_at: under 55 s, 55 to 60 s, over 1 min, over 2 min.
Fresh == 0
Grace == 1
Expired == 2
Stale == 3

Live == {"searching", "notified"}

\* "none": no row yet.
AssignmentStatuses ==
    {"none", "accepted", "timed_out", "failed", "cancelled"} \cup Live

PartnerStatuses == {"offline", "available", "on_delivery"}

OrderRows == [status : OrderStatuses, courier : PartnerOrNone]

AssignmentRows == [status   : AssignmentStatuses,
                   accepted : PartnerOrNone,
                   radius   : 1..MaxRadius,
                   notified : SUBSET Partners,
                   rejected : SUBSET Partners,
                   age      : Fresh..Stale]

PartnerRows == [approved : BOOLEAN, status : PartnerStatuses, located : BOOLEAN]

Rejections == [partner : Partners, expands : BOOLEAN]

TypeOK == /\ order \in [Orders -> OrderRows]
          /\ assignment \in [Orders -> AssignmentRows]
          /\ partner \in [Partners -> PartnerRows]
          /\ searchJobs \in [Orders -> 0..MaxJobs]
          /\ timeoutJob \in [Orders -> BOOLEAN]
          /\ obsoleteTimeouts \in [Orders -> 0..MaxObsolete]
          /\ startHook \in [Orders -> SUBSET {"current", "superseded"}]
          /\ rejecting \in [Orders -> SUBSET Rejections]

NoAssignment == [status |-> "none", accepted |-> NoPartner, radius |-> 1,
                 notified |-> {}, rejected |-> {}, age |-> Fresh]

NewPartner == [approved |-> FALSE, status |-> "offline", located |-> FALSE]

Init == /\ order = [o \in Orders |-> [status |-> "placed", courier |-> NoPartner]]
        /\ assignment = [o \in Orders |-> NoAssignment]
        /\ partner = [p \in Partners |-> NewPartner]
        /\ searchJobs = [o \in Orders |-> 0]
        /\ timeoutJob = [o \in Orders |-> FALSE]
        /\ obsoleteTimeouts = [o \in Orders |-> 0]
        /\ startHook = [o \in Orders |-> {}]
        /\ rejecting = [o \in Orders |-> {}]
-----------------------------------------------------------------------------
(* Queries and effects several handlers share.                             *)

Searching(o) == assignment[o].status \in Live

Ready(o) == order[o].status = "ready"

\* The orders a courier is busy with (has_active_deliveries).
ActiveOrders(p) ==
    {o \in Orders : order[o].courier = p /\ order[o].status \in ActiveStatuses}

\* What a courier's status becomes once they are done with order o.
StatusWithout(p, o) ==
    IF ActiveOrders(p) \ {o} = {} THEN "available" ELSE "on_delivery"

\* Recompute the status of courier p, if there is one, without order o.
Freed(p, o) ==
    [q \in Partners |->
        IF q = p THEN [partner[q] EXCEPT !.status = StatusWithout(p, o)]
                 ELSE partner[q]]

\* An assignment whose search starts over from the smallest radius.
Restarted(a) == [a EXCEPT !.status = "searching", !.radius = 1,
                          !.notified = {}, !.rejected = {}, !.age = Fresh]

OneMore(n, cap) == IF n < cap THEN n + 1 ELSE n

\* search_and_notify_partners.delay after a commit: the job is queued, or the
\* queue cannot be reached and nothing handles that.
Enqueued(jobs, o) == [jobs EXCEPT ![o] = OneMore(@, MaxJobs)]

EnqueueSearch(jobs, o) ==
    \/ searchJobs' = Enqueued(jobs, o)
    \/ "enqueue" \in Faults /\ searchJobs' = jobs

\* A write of last_search_at: a timeout scheduled for the old value is now
\* obsolete, and a pending hook that remembers the old value is superseded.
SearchTimeRewritten(o, scheduled, hooks) ==
    /\ timeoutJob' = [timeoutJob EXCEPT ![o] = scheduled]
    /\ obsoleteTimeouts' =
           IF timeoutJob[o]
           THEN [obsoleteTimeouts EXCEPT ![o] = OneMore(@, MaxObsolete)]
           ELSE obsoleteTimeouts
    /\ startHook' = [startHook EXCEPT ![o] =
           hooks \cup {"superseded" : h \in startHook[o]}]

TimedOut(o) == [assignment EXCEPT ![o] = [@ EXCEPT !.status = "timed_out"]]

\* Mutant of ExpandAndRetry: the same radius again.
RetryWithoutExpanding(o, a, jobs) ==
    /\ assignment' = [assignment EXCEPT ![o] =
           [a EXCEPT !.status = "searching", !.age = Fresh]]
    /\ SearchTimeRewritten(o, FALSE, {})
    /\ EnqueueSearch(jobs, o)

\* _expand_and_retry: one step wider and search again, or give up at the
\* maximum.  jobs is the queue it enqueues into, a the row it saves.
ExpandAndRetry(o, a, jobs) ==
    IF a.radius = MaxRadius
    THEN /\ assignment' = [assignment EXCEPT ![o] = [a EXCEPT !.status = "failed"]]
         /\ searchJobs' = jobs
         /\ UNCHANGED <<timeoutJob, obsoleteTimeouts, startHook>>
    ELSE /\ assignment' = [assignment EXCEPT ![o] =
                [a EXCEPT !.status = "searching", !.radius = @ + 1, !.age = Fresh]]
         /\ SearchTimeRewritten(o, FALSE, {})
         /\ EnqueueSearch(jobs, o)

\* OrderCancellationEffects, as far as dispatch sees it: the assignment is
\* closed and the courier freed.  The order keeps its delivery_partner.
CancelWithEffects(o) ==
    /\ order' = [order EXCEPT ![o].status = "cancelled"]
    /\ assignment' =
           IF assignment[o].status = "none" THEN assignment
           ELSE [assignment EXCEPT ![o] =
                    [@ EXCEPT !.status = "cancelled", !.accepted = NoPartner,
                              !.notified = {}, !.rejected = {}]]
    /\ partner' = Freed(order[o].courier, o)
    /\ UNCHANGED pending

\* Mutant of DeliverAndSettle: the courier is not freed.
DeliverOnly(o) ==
    /\ order' = [order EXCEPT ![o].status = "delivered"]
    /\ UNCHANGED <<assignment, partner, pending>>

\* The order is delivered and settled: the courier's status is recomputed.
DeliverAndSettle(o) ==
    /\ order' = [order EXCEPT ![o].status = "delivered"]
    /\ partner' = Freed(order[o].courier, o)
    /\ UNCHANGED <<assignment, pending>>
-----------------------------------------------------------------------------
(* The vendor and the customer.                                            *)

VendorMoves == {<<"placed", "confirmed">>, <<"confirmed", "preparing">>,
                <<"preparing", "ready">>}

VendorAdvances(o) ==
    \E s \in OrderStatuses :
        /\ <<order[o].status, s>> \in VendorMoves
        /\ order' = [order EXCEPT ![o].status = s]
        /\ UNCHANGED <<assignment, partner, pending>>

\* Mutant of CancelOrder: an order of any status can be cancelled.
CancelAnyOrder(o) == CancelWithEffects(o)

CancelOrder(o) ==
    /\ order[o].status \in CancellableStatuses
    /\ CancelWithEffects(o)

VerifyPickupOtp(o) ==
    /\ Ready(o)
    /\ order[o].courier # NoPartner
    /\ order' = [order EXCEPT ![o].status = "picked_up"]
    /\ UNCHANGED <<assignment, partner, pending>>

StartDeliverySearch(o) ==
    /\ Ready(o)
    /\ order[o].courier = NoPartner
    /\ assignment[o].status \notin Live \cup {"accepted"}
    /\ assignment' = [assignment EXCEPT ![o] = Restarted(@)]
    /\ SearchTimeRewritten(o, FALSE, {"current"})
    /\ UNCHANGED <<order, partner, searchJobs, rejecting>>

\* enqueue_search, after the commit.
StartHookEnqueues(o, h) ==
    /\ h \in startHook[o]
    /\ startHook' = [startHook EXCEPT ![o] = @ \ {h}]
    /\ searchJobs' = Enqueued(searchJobs, o)
    /\ UNCHANGED <<order, assignment, partner, timeoutJob, obsoleteTimeouts, rejecting>>

\* Mutant of StartHookFails: the failed enqueue is only logged.
StartHookShrugs(o, h) ==
    /\ "start" \in Faults
    /\ h \in startHook[o]
    /\ startHook' = [startHook EXCEPT ![o] = @ \ {h}]
    /\ UNCHANGED <<order, assignment, partner, searchJobs, timeoutJob,
                   obsoleteTimeouts, rejecting>>

\* The queue is down: the search is failed, unless last_search_at shows that
\* someone has restarted it since.
StartHookFails(o, h) ==
    /\ "start" \in Faults
    /\ h \in startHook[o]
    /\ startHook' = [startHook EXCEPT ![o] = @ \ {h}]
    /\ assignment' =
           IF h = "current" /\ assignment[o].status = "searching"
           THEN [assignment EXCEPT ![o] = [@ EXCEPT !.status = "failed"]]
           ELSE assignment
    /\ UNCHANGED <<order, partner, searchJobs, timeoutJob, obsoleteTimeouts, rejecting>>

CancelDeliverySearch(o) ==
    /\ order[o].courier = NoPartner
    /\ Searching(o)
    /\ assignment' = [assignment EXCEPT ![o] =
                         [@ EXCEPT !.status = "cancelled", !.notified = {}]]
    /\ UNCHANGED <<order, partner, pending>>
-----------------------------------------------------------------------------
(* The courier.  Every view requires an approved courier.                  *)

\* Mutant of AcceptAssignment: the courier's status is trusted.
AcceptIfAvailable(p, o) ==
    LET a == assignment[o] IN
    /\ Ready(o)
    /\ a.status = "notified"
    /\ a.age < Expired
    /\ partner[p].approved
    /\ partner[p].status = "available"
    /\ p \in a.notified \ a.rejected
    /\ a.accepted = NoPartner
    /\ order[o].courier = NoPartner
    /\ order' = [order EXCEPT ![o].courier = p]
    /\ assignment' = [assignment EXCEPT ![o] =
                         [@ EXCEPT !.status = "accepted", !.accepted = p]]
    /\ partner' = [partner EXCEPT ![p].status = "on_delivery"]
    /\ UNCHANGED pending

\* AcceptAssignment, and AcceptDelivery, which finds the assignment first.
AcceptAssignment(p, o) ==
    LET a == assignment[o] IN
    /\ Ready(o)
    /\ a.status = "notified"
    /\ a.age < Expired
    /\ partner[p].approved
    /\ partner[p].status = "available"
    /\ p \in a.notified \ a.rejected
    /\ ActiveOrders(p) = {}
    /\ a.accepted = NoPartner
    /\ order[o].courier = NoPartner
    /\ order' = [order EXCEPT ![o].courier = p]
    /\ assignment' = [assignment EXCEPT ![o] =
                         [@ EXCEPT !.status = "accepted", !.accepted = p]]
    /\ partner' = [partner EXCEPT ![p].status = "on_delivery"]
    /\ UNCHANGED pending

\* The unlocked first part of RejectAssignment: the rejection is written but
\* not committed, and the counts it compares see no other open rejection.
RejectBegins(p, o) ==
    LET a == assignment[o] IN
    /\ partner[p].approved
    /\ p \in a.notified
    /\ a.status \notin {"accepted", "cancelled", "failed"}
    /\ \A r \in rejecting[o] : r.partner # p
    /\ rejecting' = [rejecting EXCEPT ![o] = @ \cup
           {[partner |-> p,
             expands |-> Cardinality(a.rejected \cup {p}) >= Cardinality(a.notified)]}]
    /\ UNCHANGED <<order, assignment, partner, searchJobs, timeoutJob,
                   obsoleteTimeouts, startHook>>

\* The rest: the assignment is read again under its lock, and the rejection
\* becomes visible.
RejectCommits(o, r) ==
    LET a == [assignment[o] EXCEPT !.rejected = @ \cup {r.partner}] IN
    /\ r \in rejecting[o]
    /\ rejecting' = [rejecting EXCEPT ![o] = @ \ {r}]
    /\ IF r.expands /\ Searching(o) /\ Ready(o)
       THEN ExpandAndRetry(o, a, searchJobs)
       ELSE /\ assignment' = [assignment EXCEPT ![o] = a]
            /\ UNCHANGED <<searchJobs, timeoutJob, obsoleteTimeouts, startHook>>
    /\ UNCHANGED <<order, partner>>

\* Mutant of CancelAssignment: accepted_partner is not cleared.
CancelKeepingPartner(p, o) ==
    /\ partner[p].approved
    /\ order[o].courier = p
    /\ order[o].status \in {"ready", "picked_up"}
    /\ order' = [order EXCEPT ![o] = [status |-> "ready", courier |-> NoPartner]]
    /\ partner' = [partner EXCEPT ![p].status = "available"]
    /\ assignment' = [assignment EXCEPT ![o] = Restarted(@)]
    /\ SearchTimeRewritten(o, FALSE, {})
    /\ EnqueueSearch(searchJobs, o)
    /\ UNCHANGED rejecting

\* The courier gives the order up and the search starts over.
CancelAssignment(p, o) ==
    /\ partner[p].approved
    /\ order[o].courier = p
    /\ order[o].status \in {"ready", "picked_up"}
    /\ order' = [order EXCEPT ![o] = [status |-> "ready", courier |-> NoPartner]]
    /\ partner' = [partner EXCEPT ![p].status = "available"]
    /\ assignment' = [assignment EXCEPT ![o] =
                         [Restarted(@) EXCEPT !.accepted = NoPartner]]
    /\ SearchTimeRewritten(o, FALSE, {})
    /\ EnqueueSearch(searchJobs, o)
    /\ UNCHANGED rejecting

UpdateDeliveryStatus(p, o) ==
    /\ partner[p].approved
    /\ order[o] = [status |-> "picked_up", courier |-> p]
    /\ order' = [order EXCEPT ![o].status = "on_the_way"]
    /\ UNCHANGED <<assignment, partner, pending>>

ConfirmDelivery(p, o) ==
    /\ partner[p].approved
    /\ order[o] = [status |-> "on_the_way", courier |-> p]
    /\ DeliverAndSettle(o)

\* One search job for every live assignment; if the queue goes down on the
\* way, for some of them.
EnqueueLiveSearches ==
    LET live == {o \in Orders : Searching(o)} IN
    \E sent \in SUBSET live :
        /\ sent = live \/ "enqueue" \in Faults
        /\ searchJobs' = [o \in Orders |->
               IF o \in sent THEN OneMore(searchJobs[o], MaxJobs) ELSE searchJobs[o]]

\* Going online: nothing asks whether the courier is on a delivery.
GoOnline(p) ==
    /\ partner[p].approved
    /\ partner' = [partner EXCEPT ![p].status = "available"]
    /\ IF partner[p].located THEN EnqueueLiveSearches ELSE UNCHANGED searchJobs
    /\ UNCHANGED <<order, assignment, timeoutJob, obsoleteTimeouts, startHook, rejecting>>

GoOffline(p) ==
    /\ partner[p].approved
    /\ partner' = [partner EXCEPT ![p].status = "offline"]
    /\ UNCHANGED <<order, assignment, pending>>

\* A location report brings an offline courier online, and the first one wakes
\* the searches.
UpdateLocation(p) ==
    LET online == IF partner[p].status = "offline" THEN "available" ELSE partner[p].status IN
    /\ partner[p].approved
    /\ partner[p].status = "on_delivery" => ActiveOrders(p) # {}
    /\ partner' = [partner EXCEPT ![p].status = online, ![p].located = TRUE]
    /\ IF ~partner[p].located /\ online = "available"
       THEN EnqueueLiveSearches ELSE UNCHANGED searchJobs
    /\ UNCHANGED <<order, assignment, timeoutJob, obsoleteTimeouts, startHook, rejecting>>
-----------------------------------------------------------------------------
(* The back office.                                                        *)

\* AdminUpdateOrderStatus: forwards only, and the assignment is left alone
\* unless the order is cancelled.
AdminUpdateOrderStatus(o, s) ==
    /\ Forward(order[o].status, s)
    /\ CASE s = "cancelled" -> CancelWithEffects(o)
         [] s = "delivered" -> DeliverAndSettle(o)
         [] OTHER -> /\ order' = [order EXCEPT ![o].status = s]
                     /\ UNCHANGED <<assignment, partner, pending>>

\* AdminReassignDelivery with a target courier.
ReassignTo(o, p) ==
    LET previous == order[o].courier
        a == assignment[o] IN
    /\ Ready(o)
    /\ partner[p].approved
    /\ partner[p].status = "available"
    /\ ActiveOrders(p) \subseteq {o}
    /\ order' = [order EXCEPT ![o].courier = p]
    /\ assignment' = [assignment EXCEPT ![o] =
           [a EXCEPT !.status = "accepted", !.accepted = p, !.age = Fresh,
                     !.notified = a.notified \cup {p}, !.rejected = a.rejected \ {p}]]
    /\ partner' = [q \in Partners |->
           CASE q = p -> [partner[q] EXCEPT !.status = "on_delivery"]
             [] q = previous /\ q # p -> Freed(q, o)[q]
             [] OTHER -> partner[q]]
    /\ SearchTimeRewritten(o, FALSE, {})
    /\ UNCHANGED <<searchJobs, rejecting>>

\* AdminReassignDelivery without one: the search starts over.
ReassignToNobody(o) ==
    /\ Ready(o)
    /\ order' = [order EXCEPT ![o].courier = NoPartner]
    /\ assignment' = [assignment EXCEPT ![o] =
                         [Restarted(@) EXCEPT !.accepted = NoPartner]]
    /\ partner' = Freed(order[o].courier, o)
    /\ SearchTimeRewritten(o, FALSE, {})
    /\ EnqueueSearch(searchJobs, o)
    /\ UNCHANGED rejecting

ApprovePartner(p) ==
    /\ partner' = [partner EXCEPT ![p].approved = TRUE, ![p].status = "available"]
    /\ UNCHANGED <<order, assignment, pending>>

RejectPartner(p) ==
    /\ partner' = [partner EXCEPT ![p].approved = FALSE, ![p].status = "offline"]
    /\ UNCHANGED <<order, assignment, pending>>

\* The back office may PATCH a courier's status and approval to any value.
EditPartner(p) ==
    /\ \E s \in PartnerStatuses : \E ok \in BOOLEAN :
           partner' = [partner EXCEPT ![p].status = s, ![p].approved = ok]
    /\ UNCHANGED <<order, assignment, pending>>
-----------------------------------------------------------------------------
(* Background jobs, and the clock.                                         *)

TakeJob(o) == [searchJobs EXCEPT ![o] = @ - 1]

\* search_and_notify_partners when the search is over or the order has moved on.
SearchIgnored(o) ==
    /\ searchJobs[o] > 0
    /\ ~(Searching(o) /\ Ready(o))
    /\ searchJobs' = TakeJob(o)
    /\ UNCHANGED <<order, assignment, partner, timeoutJob, obsoleteTimeouts,
                   startHook, rejecting>>

\* ... when it waited in the queue for more than a minute.
SearchTooLate(o) ==
    /\ searchJobs[o] > 0
    /\ Searching(o) /\ Ready(o)
    /\ assignment[o].age >= Expired
    /\ searchJobs' = TakeJob(o)
    /\ assignment' = TimedOut(o)
    /\ UNCHANGED <<order, partner, timeoutJob, obsoleteTimeouts, startHook, rejecting>>

\* Approved, available, located, not asked yet and not busy.
Candidates(o) ==
    {p \in Partners \ assignment[o].notified :
        /\ partner[p].approved
        /\ partner[p].status = "available"
        /\ partner[p].located
        /\ \A other \in Orders :
              ~ /\ assignment[other].status = "accepted"
                /\ assignment[other].accepted = p
                /\ order[other].status \in ActiveStatuses}

\* ... when couriers are in range: they are asked, with a minute to answer.
SearchNotifies(o, near) ==
    /\ searchJobs[o] > 0
    /\ Searching(o) /\ Ready(o)
    /\ assignment[o].age < Expired
    /\ near # {}
    /\ near \subseteq Candidates(o)
    /\ searchJobs' = TakeJob(o)
    /\ assignment' = [assignment EXCEPT ![o] =
           [@ EXCEPT !.status = "notified", !.age = Fresh,
                     !.notified = assignment[o].notified \cup near]]
    /\ SearchTimeRewritten(o, TRUE, {})
    /\ UNCHANGED <<order, partner, rejecting>>

\* ... when nobody new is in range, even if couriers asked before still have
\* time to answer.
SearchFindsNobody(o) ==
    /\ searchJobs[o] > 0
    /\ Searching(o) /\ Ready(o)
    /\ assignment[o].age < Expired
    /\ ExpandAndRetry(o, assignment[o], TakeJob(o))
    /\ UNCHANGED <<order, partner, rejecting>>

\* check_assignment_timeout, a minute after the last notification ...
TimeoutFires(o) ==
    /\ timeoutJob[o]
    /\ assignment[o].age >= Expired
    /\ timeoutJob' = [timeoutJob EXCEPT ![o] = FALSE]
    /\ assignment' = IF Searching(o) THEN TimedOut(o) ELSE assignment
    /\ UNCHANGED <<order, partner, searchJobs, obsoleteTimeouts, startHook, rejecting>>

\* ... and a minute after an earlier one, whatever has happened since.
ObsoleteTimeoutFires(o) ==
    /\ obsoleteTimeouts[o] > 0
    /\ obsoleteTimeouts' = [obsoleteTimeouts EXCEPT ![o] = @ - 1]
    /\ assignment' = IF Searching(o) /\ assignment[o].age >= Grace
                     THEN TimedOut(o) ELSE assignment
    /\ UNCHANGED <<order, partner, searchJobs, timeoutJob, startHook, rejecting>>

\* check_stale_assignments, run when an approved courier's app polls: a
\* notification older than a minute is timed out ...
PollExpires(o) ==
    /\ \E p \in Partners : partner[p].approved
    /\ assignment[o].status = "notified"
    /\ assignment[o].age >= Expired
    /\ assignment' = TimedOut(o)
    /\ UNCHANGED <<order, partner, pending>>

\* Mutant of PollRestarts: the idle search is stamped but not queued.
PollTouches(o) ==
    /\ \E p \in Partners : partner[p].approved
    /\ assignment[o].status = "searching"
    /\ assignment[o].age = Stale
    /\ assignment' = [assignment EXCEPT ![o] = [@ EXCEPT !.age = Fresh]]
    /\ SearchTimeRewritten(o, FALSE, {})
    /\ UNCHANGED <<order, partner, searchJobs, rejecting>>

\* ... and a search idle for two minutes is queued again.
PollRestarts(o) ==
    /\ \E p \in Partners : partner[p].approved
    /\ assignment[o].status = "searching"
    /\ assignment[o].age = Stale
    /\ assignment' = [assignment EXCEPT ![o] = [@ EXCEPT !.age = Fresh]]
    /\ SearchTimeRewritten(o, FALSE, {})
    /\ EnqueueSearch(searchJobs, o)
    /\ UNCHANGED <<order, partner, rejecting>>

\* A worker dies with the job it runs: its transaction is rolled back and the
\* job is not tried again.
WorkerDies(o) ==
    /\ "worker" \in Faults
    /\ \/ /\ searchJobs[o] > 0
          /\ searchJobs' = TakeJob(o)
          /\ UNCHANGED timeoutJob
       \/ /\ timeoutJob[o]
          /\ timeoutJob' = [timeoutJob EXCEPT ![o] = FALSE]
          /\ UNCHANGED searchJobs
    /\ UNCHANGED <<order, assignment, partner, obsoleteTimeouts, startHook, rejecting>>

\* Time passes for a search that is live or has a timeout scheduled.
Ages(o) ==
    /\ Searching(o) \/ timeoutJob[o]
    /\ assignment[o].age < Stale
    /\ assignment' = [assignment EXCEPT ![o] = [@ EXCEPT !.age = assignment[o].age + 1]]
    /\ UNCHANGED <<order, partner, pending>>
-----------------------------------------------------------------------------
VendorOrCustomer(o) ==
    \/ VendorAdvances(o)
    \/ CancelOrder(o)
    \/ VerifyPickupOtp(o)
    \/ StartDeliverySearch(o)
    \/ CancelDeliverySearch(o)
    \/ \E h \in startHook[o] : StartHookEnqueues(o, h) \/ StartHookFails(o, h)

Courier(p, o) ==
    \/ AcceptAssignment(p, o)
    \/ RejectBegins(p, o)
    \/ CancelAssignment(p, o)
    \/ UpdateDeliveryStatus(p, o)
    \/ ConfirmDelivery(p, o)

CourierAlone(p) ==
    \/ GoOnline(p)
    \/ GoOffline(p)
    \/ UpdateLocation(p)

BackOffice(o) ==
    \/ \E s \in OrderStatuses : AdminUpdateOrderStatus(o, s)
    \/ \E p \in Partners : ReassignTo(o, p)
    \/ ReassignToNobody(o)

BackOfficePartner(p) ==
    \/ ApprovePartner(p)
    \/ RejectPartner(p)
    \/ EditPartner(p)

RunSearch(o) ==
    \/ SearchIgnored(o)
    \/ SearchTooLate(o)
    \/ \E near \in SUBSET Candidates(o) : SearchNotifies(o, near)
    \/ SearchFindsNobody(o)

Jobs(o) ==
    \/ RunSearch(o)
    \/ \E r \in rejecting[o] : RejectCommits(o, r)
    \/ TimeoutFires(o)
    \/ ObsoleteTimeoutFires(o)
    \/ PollExpires(o)
    \/ PollRestarts(o)
    \/ WorkerDies(o)
    \/ Ages(o)

Next == \/ \E o \in Orders : \/ VendorOrCustomer(o)
                             \/ \E p \in Partners : Courier(p, o)
                             \/ BackOffice(o)
                             \/ Jobs(o)
        \/ \E p \in Partners : CourierAlone(p) \/ BackOfficePartner(p)

Spec == Init /\ [][Next]_vars

\* Workers run what is queued, scheduled timeouts fire, an open transaction
\* reaches its hook, and time passes.  Nothing is assumed of any person.
HookRuns(o) == \E h \in startHook[o] : StartHookEnqueues(o, h) \/ StartHookFails(o, h)

Fairness == \A o \in Orders : /\ WF_vars(RunSearch(o))
                              /\ WF_vars(TimeoutFires(o))
                              /\ WF_vars(HookRuns(o))
                              /\ WF_vars(Ages(o))

FairSpec == Spec /\ Fairness

\* With a queue that fails now and then but not for ever, courier apps that keep
\* polling: of infinitely many attempts at a job, or at putting an idle search
\* back into the queue, one succeeds.
PollingFairness ==
    \A o \in Orders : /\ SF_vars(RunSearch(o))
                      /\ SF_vars(PollRestarts(o) /\ searchJobs' # searchJobs)
                      /\ WF_vars(PollExpires(o))

FaultySpec == FairSpec /\ PollingFairness
-----------------------------------------------------------------------------
(* Properties.                                                             *)

\* A courier carries at most one active order, whatever the order in which
\* acceptances, reassignments, cancellations and availability switches arrive:
\* AcceptAssignment and AdminReassignDelivery look for other active orders
\* under the courier's row lock, because the courier's status alone says
\* nothing (GoOnline and ApprovePartner make a busy courier "available").
OneOrderPerCourier ==
    \A p \in Partners : \A o1, o2 \in ActiveOrders(p) : o1 = o2

\* The order and its assignment are saved separately in every handler and must
\* always agree on who delivers: the assignment is accepted exactly when the
\* order, unless cancelled, has a courier, and by that courier.
AssignmentMatchesOrder ==
    \A o \in Orders :
        LET a == assignment[o] IN
        IF order[o].courier # NoPartner /\ order[o].status # "cancelled"
        THEN a.status = "accepted" /\ a.accepted = order[o].courier
        ELSE a.status # "accepted" /\ a.accepted = NoPartner

\* No live search is forgotten: something is always scheduled that will move it
\* on - a queued job or an unfired hook for a search, the one-minute timeout
\* for a notification - although rejections, cancellations, failed enqueues of
\* StartDeliverySearch and overtaken timeouts all cut across each other.
SearchHasWakeup ==
    \A o \in Orders :
        /\ assignment[o].status = "searching" /\ Ready(o)
              => searchJobs[o] > 0 \/ "current" \in startHook[o]
        /\ assignment[o].status = "notified" => timeoutJob[o]

\* A courier whose last active order ends - delivered, cancelled, reassigned
\* or given up - is not left "on_delivery", a status in which no search asks
\* them and no order can be accepted.
FreedWhenDone ==
    [][\A p \in Partners :
          ActiveOrders(p) # {} /\ ActiveOrders(p)' = {}
              => partner'[p].status # "on_delivery"]_vars

\* The subsystem does what the delivery contract promises.
Contract == INSTANCE DeliveryContract
                WITH status  <- [o \in Orders |-> order[o].status],
                     courier <- [o \in Orders |-> order[o].courier]

ImplementsContract == Contract!Spec

\* Every live search for a ready order comes to an end - accepted, timed out,
\* failed, cancelled, or the order moves on - whatever couriers do, as long as
\* the back office does not restart it for ever.
SearchResolves ==
    \A o \in Orders :
        <>[][~ReassignToNobody(o)]_vars
            => ((Searching(o) /\ Ready(o)) ~> ~(Searching(o) /\ Ready(o)))

\* Even when enqueues raise and workers die, a search does not hang for good:
\* check_stale_assignments, run by any approved courier's polling, picks it up.
PollingRescues ==
    \A o \in Orders :
        /\ <>[][~ReassignToNobody(o)]_vars
        /\ <>[](\E p \in Partners : partner[p].approved)
        => ((Searching(o) /\ Ready(o)) ~> ~(Searching(o) /\ Ready(o)))
=============================================================================
