------------------------------- MODULE Payouts -------------------------------
(***************************************************************************)
(* Payouts to vendors and couriers (vendors/actions/payouts.py,            *)
(* vendors/actions/recipient_payouts.py, delivery/views/payout_views.py)   *)
(* and the vendor wallet they are taken from.                              *)
(*                                                                         *)
(* The back office's handlers and the vendor's run under a lock of the     *)
(* payout row and are one action each.  A courier's approve and            *)
(* verify-credit handlers read the row, decide and save without a lock:    *)
(* what they have read is counted in `approving` and `verifying` until     *)
(* they save.                                                              *)
(***************************************************************************)
EXTENDS Integers, FiniteSets, Functions

CONSTANTS
    Vendors,
    Couriers,
    Payouts,        \* primary keys
    References,     \* external payment references
    NoRef,          \* the empty transaction_ref
    NoRecipient,
    MaxAmount,      \* amounts are at most this
    MaxEarned,      \* cap on what a vendor is credited for orders
    MaxDay,         \* periods are made of days 1..MaxDay
    MaxRequests     \* cap on a courier's concurrent requests about one payout

ASSUME PayoutsAssumption ==
    /\ Vendors \cap Couriers = {}
    /\ NoRecipient \notin Vendors \cup Couriers
    /\ NoRef \notin References
    /\ IsFiniteSet(Payouts)
    /\ MaxAmount \in Nat
    /\ MaxEarned \in Nat
    /\ MaxDay \in Nat
    /\ MaxRequests \in Nat

VARIABLES
    payout,      \* the payout rows
    wallet,      \* Vendor.wallet_balance
    credits,     \* the wallet ledger: total credited to a vendor
    debits,      \* the wallet ledger: total debited on behalf of a payout
    approving,   \* courier approvals that have read the row and not saved yet
    verifying    \* courier verifications that have read the row and not saved

vars == <<payout, wallet, credits, debits, approving, verifying>>

ledger == <<wallet, credits, debits>>
requests == <<approving, verifying>>
-----------------------------------------------------------------------------
Recipients == Vendors \cup Couriers

PayoutStatuses == {"pending_approval", "approved", "scheduled", "paid", "verified", "failed"}

\* Age of payment_sent_at: less than 24 hours, less than 48, more.
FirstDay == 0
SecondDay == 1
Overdue == 2

Amounts == 0..MaxAmount

Days == 1..MaxDay

PayoutRows == [status    : PayoutStatuses \cup {"none"},
               recipient : Recipients \cup {NoRecipient},
               amount    : Amounts,
               start     : Days \cup {0},
               end       : Days \cup {0},
               ref       : References \cup {NoRef},
               sent      : FirstDay..Overdue]

TypeOK == /\ payout \in [Payouts -> PayoutRows]
          /\ wallet \in [Vendors -> 0..MaxEarned]
          /\ credits \in [Vendors -> 0..MaxEarned]
          /\ debits \in [Payouts -> Nat]
          /\ approving \in [Payouts -> 0..MaxRequests]
          /\ verifying \in [Payouts -> 0..MaxRequests]

NoPayout == [status |-> "none", recipient |-> NoRecipient, amount |-> 0,
             start |-> 0, end |-> 0, ref |-> NoRef, sent |-> FirstDay]

Init == /\ payout = [p \in Payouts |-> NoPayout]
        /\ wallet = [v \in Vendors |-> 0]
        /\ credits = [v \in Vendors |-> 0]
        /\ debits = [p \in Payouts |-> 0]
        /\ approving = [p \in Payouts |-> 0]
        /\ verifying = [p \in Payouts |-> 0]

Exists(p) == payout[p].status # "none"

ToVendor(p) == payout[p].recipient \in Vendors

ToCourier(p) == payout[p].recipient \in Couriers

Settled(p) == payout[p].status \in {"paid", "verified"}

\* repository.overlaps
Overlaps(r, start, end) ==
    \E p \in Payouts : /\ Exists(p)
                       /\ payout[p].recipient = r
                       /\ payout[p].status # "failed"
                       /\ payout[p].start <= end
                       /\ payout[p].end >= start

SetStatus(p, s) ==
    /\ payout' = [payout EXCEPT ![p].status = s]
    /\ UNCHANGED ledger
-----------------------------------------------------------------------------
(* The back office.                                                        *)

\* credit_vendor, when one of the vendor's orders is settled.
CreditVendor(v, amount) ==
    /\ amount > 0
    /\ credits[v] + amount <= MaxEarned
    /\ wallet' = [wallet EXCEPT ![v] = @ + amount]
    /\ credits' = [credits EXCEPT ![v] = @ + amount]
    /\ UNCHANGED <<payout, debits, requests>>

CreatePayout(p, r, amount, start, end) ==
    /\ ~Exists(p)
    /\ start <= end
    /\ amount > 0
    /\ ~Overlaps(r, start, end)
    /\ payout' = [payout EXCEPT ![p] =
           [NoPayout EXCEPT !.status = "pending_approval", !.recipient = r,
                            !.amount = amount, !.start = start, !.end = end]]
    /\ UNCHANGED <<ledger, requests>>

\* Mutant of EditPayout: approved payouts can still be edited.
EditUnpaid(p, amount, start, end) ==
    /\ payout[p].status \in {"pending_approval", "approved"}
    /\ start <= end
    /\ payout' = [payout EXCEPT ![p] =
           [@ EXCEPT !.amount = amount, !.start = start, !.end = end]]
    /\ UNCHANGED <<ledger, requests>>

\* Nothing asks whether the new period overlaps another payout's.
EditPayout(p, amount, start, end) ==
    /\ payout[p].status = "pending_approval"
    /\ start <= end
    /\ payout' = [payout EXCEPT ![p] =
           [@ EXCEPT !.amount = amount, !.start = start, !.end = end]]
    /\ UNCHANGED <<ledger, requests>>

\* Mutant of Pay: the vendor's row is not saved.
PayFromNowhere(p, ref) ==
    /\ debits' = IF ToVendor(p) THEN [debits EXCEPT ![p] = @ + payout[p].amount] ELSE debits
    /\ payout' = [payout EXCEPT ![p] =
           [@ EXCEPT !.status = "paid", !.ref = ref, !.sent = FirstDay]]
    /\ UNCHANGED <<wallet, credits, requests>>

\* The vendor's wallet pays; a courier's wallet_balance is not touched.
Pay(p, ref) ==
    /\ IF ToVendor(p)
       THEN /\ wallet' = [wallet EXCEPT ![payout[p].recipient] = @ - payout[p].amount]
            /\ debits' = [debits EXCEPT ![p] = @ + payout[p].amount]
       ELSE UNCHANGED <<wallet, debits>>
    /\ payout' = [payout EXCEPT ![p] =
           [@ EXCEPT !.status = "paid", !.ref = ref, !.sent = FirstDay]]
    /\ UNCHANGED <<credits, requests>>

Covered(p) == ToVendor(p) => wallet[payout[p].recipient] >= payout[p].amount

\* Mutant of RecordPayment: a retry is not recognised.
RecordAgain(p, ref) ==
    /\ payout[p].status \in {"approved", "scheduled", "paid"}
    /\ payout[p].amount > 0
    /\ Covered(p)
    /\ Pay(p, ref)

\* record_payment, from the back office or from a background job.  A settled
\* payout is left alone: the same reference is a retry, another is refused.
RecordPayment(p, ref) ==
    /\ payout[p].status \in {"approved", "scheduled"}
    /\ payout[p].amount > 0
    /\ Covered(p)
    /\ Pay(p, ref)

SchedulePayout(p) ==
    /\ payout[p].status \in {"approved", "scheduled"}
    /\ SetStatus(p, "scheduled")
    /\ UNCHANGED requests

\* verify_override
ForceVerify(p) ==
    /\ payout[p].status = "paid"
    /\ payout[p].ref # NoRef
    /\ payout[p].sent = Overdue
    /\ SetStatus(p, "verified")
    /\ UNCHANGED requests
-----------------------------------------------------------------------------
(* The recipients.                                                         *)

VendorApproves(p) ==
    /\ ToVendor(p)
    /\ payout[p].status = "pending_approval"
    /\ SetStatus(p, "approved")
    /\ UNCHANGED requests

\* Mutant of Declines: any payout can be declined.
DeclinesAnytime(p) ==
    /\ Exists(p)
    /\ SetStatus(p, "failed")
    /\ UNCHANGED requests

\* The vendor's and the courier's decline handlers both hold the row lock.
Declines(p) ==
    /\ payout[p].status = "pending_approval"
    /\ SetStatus(p, "failed")
    /\ UNCHANGED requests

VendorVerifies(p) ==
    /\ ToVendor(p)
    /\ payout[p].status = "paid"
    /\ SetStatus(p, "verified")
    /\ UNCHANGED requests

CourierApproveReads(p) ==
    /\ ToCourier(p)
    /\ payout[p].status = "pending_approval"
    /\ approving[p] < MaxRequests
    /\ approving' = [approving EXCEPT ![p] = @ + 1]
    /\ UNCHANGED <<payout, ledger, verifying>>

CourierApproveSaves(p) ==
    /\ approving[p] > 0
    /\ approving' = [approving EXCEPT ![p] = @ - 1]
    /\ SetStatus(p, "approved")
    /\ UNCHANGED verifying

CourierVerifyReads(p) ==
    /\ ToCourier(p)
    /\ payout[p].status = "paid"
    /\ verifying[p] < MaxRequests
    /\ verifying' = [verifying EXCEPT ![p] = @ + 1]
    /\ UNCHANGED <<payout, ledger, approving>>

CourierVerifySaves(p) ==
    /\ verifying[p] > 0
    /\ verifying' = [verifying EXCEPT ![p] = @ - 1]
    /\ SetStatus(p, "verified")
    /\ UNCHANGED approving
-----------------------------------------------------------------------------
(* Time.                                                                   *)

ADayPasses(p) ==
    /\ payout[p].status = "paid"
    /\ payout[p].sent < Overdue
    /\ payout' = [payout EXCEPT ![p].sent = @ + 1]
    /\ UNCHANGED <<ledger, requests>>
-----------------------------------------------------------------------------
BackOffice(p) ==
    \/ \E r \in Recipients, amount \in Amounts, start, end \in Days :
           CreatePayout(p, r, amount, start, end)
    \/ \E amount \in Amounts, start, end \in Days : EditPayout(p, amount, start, end)
    \/ \E ref \in References : RecordPayment(p, ref)
    \/ SchedulePayout(p)
    \/ ForceVerify(p)

Recipient(p) ==
    \/ VendorApproves(p)
    \/ Declines(p)
    \/ VendorVerifies(p)
    \/ CourierApproveReads(p)
    \/ CourierApproveSaves(p)
    \/ CourierVerifyReads(p)
    \/ CourierVerifySaves(p)

Next == \/ \E v \in Vendors, amount \in Amounts : CreditVendor(v, amount)
        \/ \E p \in Payouts : BackOffice(p) \/ Recipient(p) \/ ADayPasses(p)

Spec == Init /\ [][Next]_vars
-----------------------------------------------------------------------------
(* Properties.                                                             *)

\* Recording a payment takes the amount of a vendor's payout out of the wallet
\* exactly once, however often the handler and the background job are retried
\* and whatever happens to the payout afterwards: the ledger holds one debit of
\* that amount for a settled payout, and none for any other.
DebitedOnce ==
    \A p \in Payouts :
        debits[p] = IF ToVendor(p) /\ Settled(p) THEN payout[p].amount ELSE 0

\* The balance kept on the vendor row and the ledger agree: what was credited
\* for orders is either still in the wallet or in a settled payout.
WalletMatchesLedger ==
    \A v \in Vendors :
        credits[v] = wallet[v] + SumFunctionOnSet(debits, {p \in Payouts : payout[p].recipient = v})

\* No payment without the recipient's consent, in spite of the courier handlers'
\* unlocked reads: a payout that somebody still may approve, or has declined,
\* carries no payment reference, and a settled one always does.
EvidenceOfPayment ==
    \A p \in Payouts :
        /\ payout[p].status \in {"pending_approval", "failed"} => payout[p].ref = NoRef
        /\ Settled(p) => payout[p].ref # NoRef

\* Payouts to vendors keep the contract: terms frozen once agreed to, one
\* payment, covered by the wallet.
Terms == [recipient : Vendors, amount : Amounts, start : Days, end : Days]

NoTerms == NoPayout

PhaseOf(row) ==
    IF row.recipient \notin Vendors
    THEN "absent"
    ELSE CASE row.status = "pending_approval"          -> "offered"
           [] row.status \in {"approved", "scheduled"} -> "agreed"
           [] row.status \in {"paid", "verified"}      -> "settled"
           [] OTHER                                    -> "refused"

TermsOf(row) == IF row.recipient \in Vendors
                THEN [recipient |-> row.recipient, amount |-> row.amount,
                      start |-> row.start, end |-> row.end]
                ELSE NoTerms

Contract == INSTANCE PayoutContract
    WITH phase <- [p \in Payouts |-> PhaseOf(payout[p])],
         terms <- [p \in Payouts |-> TermsOf(payout[p])]

ImplementsContract == Contract!Spec
=============================================================================
