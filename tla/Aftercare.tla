----------------------------- MODULE Aftercare -----------------------------
(***************************************************************************)
(* What follows a delivered order: support cases (orders/views/            *)
(* issue_views.py, orders/actions/ordering/issue_messages.py, the back     *)
(* office's UpdateSupportCaseAction), the ledger of refund requests        *)
(* (orders/actions/refund_ledger_actions.py) and the rating of the store   *)
(* (orders/views/order_rating_views.py, vendors/models/vendor_review.py).  *)
(*                                                                         *)
(* The ledger locks the order; a case is locked by the back office but not *)
(* by its customer's messages; the ratings of a store lock nothing until   *)
(* the average is written.                                                 *)
(***************************************************************************)
EXTENDS Integers, FiniteSets, Functions

CONSTANTS
    Deliveries, \* delivered orders of one store, each of another customer
    Total,      \* what each of them cost
    Refunds,    \* primary keys of the ledger
    Amounts,    \* amounts asked back
    Issues,     \* primary keys of support cases
    NoDelivery

ASSUME AftercareAssumption ==
    /\ Total \in Nat \ {0}
    /\ Amounts \subseteq Nat \ {0}
    /\ NoDelivery \notin Deliveries
    /\ IsFiniteSet(Deliveries) /\ IsFiniteSet(Refunds)

VARIABLES
    ledger,      \* RefundLedger rows
    issue,       \* OrderIssue rows
    writing,     \* cases whose customer's message has read the status open
    overtaken,   \* cases such a message took back from the back office
    rating,      \* an order's OrderRating and what came of it
    counted,     \* reviews the rating of an order has counted
    ratings      \* Vendor.total_ratings

aftercare == <<ledger, issue, writing, overtaken, rating, counted, ratings>>

cases   == <<issue, writing, overtaken>>
reviews == <<rating, counted, ratings>>
-----------------------------------------------------------------------------
RefundStatuses == {"requested", "approved", "processing", "processed", "failed", "cancelled"}

\* MutateRefundLedgerAction.transitions
NextRefundStatus(s) == CASE s = "requested"  -> {"approved", "cancelled"}
                         [] s = "approved"   -> {"processing", "cancelled"}
                         [] s = "processing" -> {"processed", "failed"}
                         [] s = "failed"     -> {"processing", "cancelled"}
                         [] OTHER            -> {}

RefundMethods == {"wallet", "razorpay", "manual"}

\* OrderIssue.STATUS_CHOICES, the states between review and resolution as one.
IssueStatuses == {"none", "open", "in_review", "assigned", "resolved", "closed", "rejected"}

Resolved == {"resolved", "closed", "rejected"}

NoRefund == [status |-> "none", order |-> NoDelivery, amount |-> 0, method |-> "manual"]

NoIssue == [status |-> "none", resolver |-> FALSE]

AftercareTypeOK ==
    /\ ledger \in [Refunds -> [status : RefundStatuses \cup {"none"}, order : Deliveries \cup {NoDelivery},
                               amount : Amounts \cup {0}, method : RefundMethods]]
    /\ issue \in [Issues -> [status : IssueStatuses, resolver : BOOLEAN]]
    /\ writing \subseteq Issues
    /\ overtaken \subseteq Issues
    /\ rating \in [Deliveries -> {"none", "rated", "counting", "reviewed"}]
    /\ counted \in [Deliveries -> Nat]
    /\ ratings \in Nat

AftercareInit ==
    /\ ledger = [r \in Refunds |-> NoRefund]
    /\ issue = [i \in Issues |-> NoIssue]
    /\ writing = {}
    /\ overtaken = {}
    /\ rating = [o \in Deliveries |-> "none"]
    /\ counted = [o \in Deliveries |-> 0]
    /\ ratings = 0
-----------------------------------------------------------------------------
(* The refund ledger; the order is locked for each change of a row.        *)

Outstanding(o) == {r \in Refunds : /\ ledger[r].order = o
                                   /\ ledger[r].status \notin {"failed", "cancelled"}}

SumOf(refunds) == SumFunctionOnSet([r \in Refunds |-> ledger[r].amount], refunds)

\* RefundLedgerRepository.reserved_amount, without the row itself.
Reserved(o, r) == SumOf(Outstanding(o) \ {r})

Fits(r, o, amount) == /\ amount <= Total
                      /\ Reserved(o, r) + amount <= Total

\* A new row starts as requested.
RequestRefund(r, o, amount, method) ==
    /\ ledger[r].status = "none"
    /\ Fits(r, o, amount)
    /\ ledger' = [ledger EXCEPT ![r] = [status |-> "requested", order |-> o,
                                        amount |-> amount, method |-> method]]
    /\ UNCHANGED <<cases, reviews>>

\* Mutant of MoveRefund: the sum is checked when the refund is requested only.
MoveUnchecked(r, s) ==
    /\ s \in NextRefundStatus(ledger[r].status)
    /\ s = "processed" => ledger[r].method # "wallet"
    /\ ledger' = [ledger EXCEPT ![r].status = s]
    /\ UNCHANGED <<cases, reviews>>

\* MutateRefundLedgerAction on an existing row: a refund that failed counts again
\* when it is processed again, or cancelled.
MoveRefund(r, s) ==
    /\ s \in NextRefundStatus(ledger[r].status)
    /\ Fits(r, ledger[r].order, ledger[r].amount)
    /\ s = "processed" => ledger[r].method # "wallet"
    /\ ledger' = [ledger EXCEPT ![r].status = s]
    /\ UNCHANGED <<cases, reviews>>
-----------------------------------------------------------------------------
(* Support cases.                                                          *)

\* CustomerOrderIssueListCreateView.post
RaiseIssue(i) ==
    /\ issue[i].status = "none"
    /\ issue' = [issue EXCEPT ![i].status = "open"]
    /\ UNCHANGED <<ledger, writing, overtaken, reviews>>

\* AddIssueMessageAction reads the case without a lock ...
MessageReads(i) ==
    /\ issue[i].status = "open"
    /\ writing' = writing \cup {i}
    /\ UNCHANGED <<ledger, issue, overtaken, reviews>>

\* ... and sends it to review, whatever it has become; the resolver stays.
MessageSaves(i) ==
    /\ i \in writing
    /\ writing' = writing \ {i}
    /\ issue' = [issue EXCEPT ![i].status = "in_review"]
    /\ overtaken' = IF issue[i].resolver THEN overtaken \cup {i} ELSE overtaken
    /\ UNCHANGED <<ledger, reviews>>

\* Mutant of UpdateCase: a case that is taken up again keeps its resolver.
KeepResolver(i, s) ==
    /\ issue[i].status # "none"
    /\ s # "none"
    /\ issue' = [issue EXCEPT ![i] = [status |-> s, resolver |-> @.resolver \/ s \in Resolved]]
    /\ overtaken' = overtaken \ {i}
    /\ UNCHANGED <<ledger, writing, reviews>>

\* UpdateSupportCaseAction with a status: any status at any time.
UpdateCase(i, s) ==
    /\ issue[i].status # "none"
    /\ s # "none"
    /\ issue' = [issue EXCEPT ![i] = [status |-> s, resolver |-> s \in Resolved]]
    /\ overtaken' = overtaken \ {i}
    /\ UNCHANGED <<ledger, writing, reviews>>
-----------------------------------------------------------------------------
(* Ratings.                                                                *)

Reviewed == {o \in Deliveries : rating[o] = "reviewed"}

\* SubmitOrderRatingView: one rating for an order, committed at once.
SubmitRating(o) ==
    /\ rating[o] = "none"
    /\ rating' = [rating EXCEPT ![o] = "rated"]
    /\ UNCHANGED <<ledger, cases, counted, ratings>>

\* VendorReview.save inserts the review and counts what is committed beside it.
CountReviews(o) ==
    /\ rating[o] = "rated"
    /\ rating' = [rating EXCEPT ![o] = "counting"]
    /\ counted' = [counted EXCEPT ![o] = Cardinality(Reviewed) + 1]
    /\ UNCHANGED <<ledger, cases, ratings>>

\* It saves the average and the number of reviews, and commits.
SaveAverage(o) ==
    /\ rating[o] = "counting"
    /\ rating' = [rating EXCEPT ![o] = "reviewed"]
    /\ ratings' = counted[o]
    /\ UNCHANGED <<ledger, cases, counted>>
-----------------------------------------------------------------------------
LedgerNext ==
    \E r \in Refunds :
        \/ \E o \in Deliveries, amount \in Amounts, method \in RefundMethods :
                RequestRefund(r, o, amount, method)
        \/ \E s \in RefundStatuses : MoveRefund(r, s)

CaseNext ==
    \E i \in Issues : \/ RaiseIssue(i)
                      \/ MessageReads(i)
                      \/ MessageSaves(i)
                      \/ \E s \in IssueStatuses : UpdateCase(i, s)

RatingNext ==
    \E o \in Deliveries : \/ SubmitRating(o)
                          \/ CountReviews(o)
                          \/ SaveAverage(o)

AftercareNext == LedgerNext \/ CaseNext \/ RatingNext

AftercareSpec == AftercareInit /\ [][AftercareNext]_aftercare
-----------------------------------------------------------------------------
(* Properties.                                                             *)

\* The refunds of an order that are not failed or cancelled never exceed its total,
\* also when one that failed is taken up again after others took its place.
RefundsWithinTotal == \A o \in Deliveries : SumOf(Outstanding(o)) <= Total

\* A resolution keeps its resolver, also when a customer's message that had read the
\* open case overtakes it: a case with a resolver that does not look resolved is one of
\* these.
ResolutionStands == \A i \in Issues :
    /\ issue[i].status \in Resolved => issue[i].resolver
    /\ (issue[i].resolver /\ issue[i].status \notin Resolved) <=> i \in overtaken

\* The store's number of ratings may miss reviews that were written at the same
\* time, but never counts one that is not there or one twice.
RatingsCounted == /\ ratings <= Cardinality(Reviewed)
                  /\ Reviewed # {} => ratings > 0

\* What is written down about an order afterwards survives who writes at the same time.
RecordsKept == ResolutionStands /\ RatingsCounted
=============================================================================
